---- MODULE Spec2Model ----
(***************************************************************************)
(* A model of the bot-panel configuration store and its two HTTP surfaces. *)
(*                                                                         *)
(*   src/database.py  class Database: the synchronized accessor over the   *)
(*                    sqlite store (api_keys, ai_models, user_models,      *)
(*                    settings, sessions, test_logs, activity_logs)        *)
(*   src/app.py       the Flask surface: session-authenticated admin API   *)
(*                    and the bot API guarded by X-Bot-Secret              *)
(*   src/main.py      the FastAPI variant with its own store (api_keys,    *)
(*                    models, settings, logs), Basic-auth admin API and    *)
(*                    bot API                                             *)
(*                                                                         *)
(* Tables are functions from the primary key to the row.  Columns that     *)
(* only hold CURRENT_TIMESTAMP values (created_at, updated_at) are left    *)
(* out of the rows; last_tested is kept as the clock value.  Secret values *)
(* are sequences of one-character strings so that slicing is computed.     *)
(***************************************************************************)
EXTENDS Integers, Sequences, FiniteSets, TLC

VARIABLES
    api_keys,        \* database.py api_keys: id -> row
    api_keys_seq,    \* database.py api_keys AUTOINCREMENT high-water mark
    ai_models,       \* database.py ai_models: id -> row
    user_models,     \* database.py user_models: user_id -> model_id
    settings,        \* database.py settings: key -> value
    sessions,        \* database.py sessions: token -> expires_at
    test_logs,       \* database.py test_logs, in id order
    activity_logs,   \* database.py activity_logs, in id order
    now,             \* the wall clock read by datetime.now(), in seconds
    ticks,           \* how many times the clock has advanced
    issued,          \* token -> the clock create_session read for its expiry
    deleted,         \* issued tokens delete_session has been called with
    m_api_keys,      \* main.py api_keys: id -> row
    m_api_keys_seq,  \* main.py api_keys AUTOINCREMENT high-water mark
    m_models,        \* main.py models: id -> row
    m_models_seq,    \* main.py models AUTOINCREMENT high-water mark
    m_settings,      \* main.py settings: key -> value
    m_logs,          \* main.py logs, in id order
    m_logs_seq,      \* main.py logs AUTOINCREMENT high-water mark
    lock,            \* Database.lock: 0, or the call that holds it
    db_lock,         \* main.py db_lock: 0, or the call that holds it
    threads,         \* calls and requests in flight: id -> progress
    resp             \* the last call or request and what it returned

dbVars   == <<api_keys, api_keys_seq, ai_models, user_models, settings,
              sessions, test_logs, activity_logs>>
concVars == <<lock, db_lock, threads>>
envVars  == <<now, ticks, issued, deleted, concVars>>
mainVars == <<m_api_keys, m_api_keys_seq, m_models, m_models_seq, m_settings,
              m_logs, m_logs_seq>>
clockVars == <<now, ticks, issued, deleted>>
lockVars == <<lock, db_lock>>
vars     == <<api_keys, api_keys_seq, ai_models, user_models, settings,
              sessions, test_logs, activity_logs, now, ticks, issued, deleted,
              m_api_keys, m_api_keys_seq, m_models, m_models_seq, m_settings,
              m_logs, m_logs_seq, lock, db_lock, threads, resp>>

\* The empty table (a function with an empty domain).
EmptyTable == [k \in {} |-> 0]

\* INSERT OR REPLACE of one row under its primary key.
Upsert(table, k, v) == [x \in DOMAIN table \cup {k} |-> IF x = k THEN v ELSE table[x]]

\* A variant: a DELETE without its WHERE clause.
DeleteRow_All(table, k) == [x \in {} |-> table[x]]

\* DELETE of the row with primary key k, if any.
DeleteRow(table, k) == [x \in DOMAIN table \ {k} |-> table[x]]

\* The elements of a sequence.
Range(s) == {s[i] : i \in DOMAIN s}

(***************************************************************************)
(* The built-in catalog of _seed_default_models.  The emoji column holds   *)
(* the code points of the source's emoji.                                  *)
(***************************************************************************)
default_models ==
  <<
    [id |-> "groq", emoji |-> "U+26A1", name |-> "Groq", description |-> "Llama 3.3 70B Versatile", category |-> "main",
     provider |-> "groq", model_id |-> "llama-3.3-70b-versatile", is_enabled |-> 1, is_default |-> 1, priority |-> 10],
    [id |-> "groq_8b", emoji |-> "U+26A1", name |-> "Groq-8B", description |-> "Llama 3.1 8B Instant", category |-> "main",
     provider |-> "groq", model_id |-> "llama-3.1-8b-instant", is_enabled |-> 1, is_default |-> 0, priority |-> 11],
    [id |-> "groq_maverick", emoji |-> "U+1F999", name |-> "Groq-Maverick", description |-> "Llama 4 Maverick", category |-> "main",
     provider |-> "groq", model_id |-> "meta-llama/llama-4-maverick-17b-128e-instruct", is_enabled |-> 1, is_default |-> 0, priority |-> 12],
    [id |-> "groq_scout", emoji |-> "U+1F50D", name |-> "Groq-Scout", description |-> "Llama 4 Scout", category |-> "main",
     provider |-> "groq", model_id |-> "meta-llama/llama-4-scout-17b-16e-instruct", is_enabled |-> 1, is_default |-> 0, priority |-> 13],
    [id |-> "groq_kimi", emoji |-> "U+1F319", name |-> "Groq-Kimi", description |-> "Kimi K2 Instruct", category |-> "main",
     provider |-> "groq", model_id |-> "moonshotai/kimi-k2-instruct", is_enabled |-> 1, is_default |-> 0, priority |-> 14],
    [id |-> "cerebras", emoji |-> "U+1F9E0", name |-> "Cerebras", description |-> "Llama 3.3 70B", category |-> "main",
     provider |-> "cerebras", model_id |-> "llama-3.3-70b", is_enabled |-> 1, is_default |-> 0, priority |-> 20],
    [id |-> "sambanova", emoji |-> "U+1F9A3", name |-> "SambaNova", description |-> "Llama 3.3 70B Instruct", category |-> "main",
     provider |-> "sambanova", model_id |-> "Meta-Llama-3.3-70B-Instruct", is_enabled |-> 1, is_default |-> 0, priority |-> 30],
    [id |-> "cloudflare", emoji |-> "U+2601-U+FE0F", name |-> "Cloudflare", description |-> "Llama 3.3 70B", category |-> "main",
     provider |-> "cloudflare", model_id |-> "@cf/meta/llama-3.3-70b-instruct-fp8-fast", is_enabled |-> 1, is_default |-> 0, priority |-> 40],
    [id |-> "cohere", emoji |-> "U+1F537", name |-> "Cohere", description |-> "Command R+", category |-> "main",
     provider |-> "cohere", model_id |-> "command-r-plus-08-2024", is_enabled |-> 1, is_default |-> 0, priority |-> 50],
    [id |-> "mistral", emoji |-> "U+24C2-U+FE0F", name |-> "Mistral", description |-> "Mistral Small", category |-> "main",
     provider |-> "mistral", model_id |-> "mistral-small-latest", is_enabled |-> 1, is_default |-> 0, priority |-> 60],
    [id |-> "together", emoji |-> "U+1F91D", name |-> "Together", description |-> "Llama 3.3 Turbo", category |-> "main",
     provider |-> "together", model_id |-> "meta-llama/Llama-3.3-70B-Instruct-Turbo", is_enabled |-> 1, is_default |-> 0, priority |-> 70],
    [id |-> "moonshot", emoji |-> "U+1F319", name |-> "Moonshot", description |-> "Kimi 128K", category |-> "main",
     provider |-> "moonshot", model_id |-> "moonshot-v1-8k", is_enabled |-> 1, is_default |-> 0, priority |-> 80],
    [id |-> "huggingface", emoji |-> "U+1F917", name |-> "HuggingFace", description |-> "Mixtral 8x7B", category |-> "main",
     provider |-> "huggingface", model_id |-> "mistralai/Mixtral-8x7B-Instruct-v0.1", is_enabled |-> 1, is_default |-> 0, priority |-> 90],
    [id |-> "replicate", emoji |-> "U+1F504", name |-> "Replicate", description |-> "Llama 405B", category |-> "main",
     provider |-> "replicate", model_id |-> "meta/meta-llama-3.1-405b-instruct", is_enabled |-> 1, is_default |-> 0, priority |-> 100],
    [id |-> "tavily", emoji |-> "U+1F50D", name |-> "Tavily", description |-> "Web Search", category |-> "main",
     provider |-> "tavily", model_id |-> "search", is_enabled |-> 1, is_default |-> 0, priority |-> 110],
    [id |-> "gemini_flash", emoji |-> "U+1F48E", name |-> "Gemini Flash", description |-> "2.0 Flash Lite", category |-> "gemini",
     provider |-> "gemini", model_id |-> "gemini-2.0-flash-lite", is_enabled |-> 1, is_default |-> 0, priority |-> 200],
    [id |-> "gemini_lite", emoji |-> "U+1F48E", name |-> "Gemini Lite", description |-> "Flash Lite Latest", category |-> "gemini",
     provider |-> "gemini", model_id |-> "gemini-flash-lite-latest", is_enabled |-> 1, is_default |-> 0, priority |-> 201],
    [id |-> "gemini_pro", emoji |-> "U+1F48E", name |-> "Gemini Pro", description |-> "1.5 Pro", category |-> "gemini",
     provider |-> "gemini", model_id |-> "gemini-1.5-pro", is_enabled |-> 1, is_default |-> 0, priority |-> 202],
    [id |-> "or_llama", emoji |-> "U+1F999", name |-> "OR-Llama", description |-> "Llama 3.3 70B Free", category |-> "openrouter",
     provider |-> "openrouter", model_id |-> "meta-llama/llama-3.3-70b-instruct:free", is_enabled |-> 1, is_default |-> 0, priority |-> 300],
    [id |-> "or_gemini", emoji |-> "U+1F48E", name |-> "OR-Gemini", description |-> "Gemini 2.0 Free", category |-> "openrouter",
     provider |-> "openrouter", model_id |-> "google/gemini-2.0-flash-exp:free", is_enabled |-> 1, is_default |-> 0, priority |-> 301],
    [id |-> "or_molmo", emoji |-> "U+1F441-U+FE0F", name |-> "OR-Molmo", description |-> "Molmo2 8B", category |-> "openrouter",
     provider |-> "openrouter", model_id |-> "allenai/molmo-2-8b:free", is_enabled |-> 1, is_default |-> 0, priority |-> 302],
    [id |-> "or_mimo", emoji |-> "U+1F3AD", name |-> "OR-MiMo", description |-> "MiMo V2 Flash", category |-> "openrouter",
     provider |-> "openrouter", model_id |-> "xiaomi/mimo-v2-flash:free", is_enabled |-> 1, is_default |-> 0, priority |-> 303],
    [id |-> "or_nemotron", emoji |-> "U+1F525", name |-> "OR-Nemotron", description |-> "Nemotron 3 Nano", category |-> "openrouter",
     provider |-> "openrouter", model_id |-> "nvidia/nemotron-3-nano-30b-a3b:free", is_enabled |-> 1, is_default |-> 0, priority |-> 304],
    [id |-> "or_devstral", emoji |-> "U+1F4BB", name |-> "OR-Devstral", description |-> "Devstral 2", category |-> "openrouter",
     provider |-> "openrouter", model_id |-> "mistralai/devstral-2-2512:free", is_enabled |-> 1, is_default |-> 0, priority |-> 305],
    [id |-> "or_trinity", emoji |-> "U+1F53A", name |-> "OR-Trinity", description |-> "Trinity Mini", category |-> "openrouter",
     provider |-> "openrouter", model_id |-> "trinity/trinity-mini:free", is_enabled |-> 1, is_default |-> 0, priority |-> 306],
    [id |-> "or_glm", emoji |-> "U+1F1E8-U+1F1F3", name |-> "OR-GLM", description |-> "GLM 4.5 Air", category |-> "openrouter",
     provider |-> "openrouter", model_id |-> "zhipu/glm-4.5-air:free", is_enabled |-> 1, is_default |-> 0, priority |-> 307],
    [id |-> "or_kimi", emoji |-> "U+1F319", name |-> "OR-Kimi", description |-> "Kimi K2", category |-> "openrouter",
     provider |-> "openrouter", model_id |-> "moonshot/kimi-k2-0711:free", is_enabled |-> 1, is_default |-> 0, priority |-> 308],
    [id |-> "or_uncensored", emoji |-> "U+1F513", name |-> "OR-Uncensored", description |-> "Uncensored Model", category |-> "openrouter",
     provider |-> "openrouter", model_id |-> "undi95/uncensored:free", is_enabled |-> 1, is_default |-> 0, priority |-> 309],
    [id |-> "or_r1", emoji |-> "U+1F9E0", name |-> "OR-DeepSeek R1", description |-> "R1 0528", category |-> "openrouter",
     provider |-> "openrouter", model_id |-> "deepseek/deepseek-r1-0528:free", is_enabled |-> 1, is_default |-> 0, priority |-> 310],
    [id |-> "or_r1t", emoji |-> "U+1F9E0", name |-> "OR-R1T Chimera", description |-> "R1T Chimera", category |-> "openrouter",
     provider |-> "openrouter", model_id |-> "deepseek/r1t-chimera:free", is_enabled |-> 1, is_default |-> 0, priority |-> 311],
    [id |-> "or_qwen", emoji |-> "U+1F52E", name |-> "OR-Qwen", description |-> "Qwen3 235B", category |-> "openrouter",
     provider |-> "openrouter", model_id |-> "qwen/qwen3-235b-a22b:free", is_enabled |-> 1, is_default |-> 0, priority |-> 312],
    [id |-> "pf_openai", emoji |-> "U+1F193", name |-> "PollFree-OpenAI", description |-> "GPT-5 Mini", category |-> "pollinations",
     provider |-> "pollinations_free", model_id |-> "openai", is_enabled |-> 1, is_default |-> 0, priority |-> 400],
    [id |-> "pf_fast", emoji |-> "U+26A1", name |-> "PollFree-Fast", description |-> "GPT-5 Nano", category |-> "pollinations",
     provider |-> "pollinations_free", model_id |-> "openai-fast", is_enabled |-> 1, is_default |-> 0, priority |-> 401],
    [id |-> "pf_nova", emoji |-> "U+1F680", name |-> "PollFree-Nova", description |-> "Amazon Nova", category |-> "pollinations",
     provider |-> "pollinations_free", model_id |-> "nova-fast", is_enabled |-> 1, is_default |-> 0, priority |-> 402],
    [id |-> "pf_mistral", emoji |-> "U+24C2-U+FE0F", name |-> "PollFree-Mistral", description |-> "Mistral 3.2", category |-> "pollinations",
     provider |-> "pollinations_free", model_id |-> "mistral", is_enabled |-> 1, is_default |-> 0, priority |-> 403],
    [id |-> "pf_gemini", emoji |-> "U+1F48E", name |-> "PollFree-Gemini", description |-> "Gemini 2.5 Lite", category |-> "pollinations",
     provider |-> "pollinations_free", model_id |-> "gemini-fast", is_enabled |-> 1, is_default |-> 0, priority |-> 404],
    [id |-> "pf_qwen", emoji |-> "U+1F52E", name |-> "PollFree-Qwen", description |-> "Qwen3 Coder", category |-> "pollinations",
     provider |-> "pollinations_free", model_id |-> "qwen-coder", is_enabled |-> 1, is_default |-> 0, priority |-> 405],
    [id |-> "pf_deepseek", emoji |-> "U+1F30A", name |-> "PollFree-DeepSeek", description |-> "DeepSeek V3.2", category |-> "pollinations",
     provider |-> "pollinations_free", model_id |-> "deepseek", is_enabled |-> 1, is_default |-> 0, priority |-> 406],
    [id |-> "pf_grok", emoji |-> "U+274C", name |-> "PollFree-Grok", description |-> "Grok 4 Fast", category |-> "pollinations",
     provider |-> "pollinations_free", model_id |-> "grok", is_enabled |-> 1, is_default |-> 0, priority |-> 407],
    [id |-> "pf_sonar", emoji |-> "U+1F50D", name |-> "PollFree-Sonar", description |-> "Perplexity Sonar", category |-> "pollinations",
     provider |-> "pollinations_free", model_id |-> "sonar", is_enabled |-> 1, is_default |-> 0, priority |-> 408],
    [id |-> "poll_free", emoji |-> "U+1F338", name |-> "PollFree-Auto", description |-> "Auto Select", category |-> "pollinations",
     provider |-> "pollinations_free", model_id |-> "auto", is_enabled |-> 1, is_default |-> 0, priority |-> 409],
    [id |-> "pa_openai", emoji |-> "U+1F511", name |-> "PollAPI-OpenAI", description |-> "OpenAI with Key", category |-> "pollinations_api",
     provider |-> "pollinations_api", model_id |-> "openai", is_enabled |-> 1, is_default |-> 0, priority |-> 500],
    [id |-> "pa_claude", emoji |-> "U+1F511", name |-> "PollAPI-Claude", description |-> "Claude with Key", category |-> "pollinations_api",
     provider |-> "pollinations_api", model_id |-> "claude", is_enabled |-> 1, is_default |-> 0, priority |-> 501]
  >>

\* hashlib.sha256(p.encode()).hexdigest() on the passwords the model
\* sends; any other text gets a digest of its own.
sha256(p) ==
    CASE p = "admin123" -> "240be518fabd2724ddb6f04eeb1da5967448d7e831c08c8fa822809f74c720a9"
      [] p = "wrong" -> "8810ad581e59f2bc3928b261707a71308f7e139eb04820366dc4d5c18d980225"
      [] p = "hunter22" -> "20d2fe5e369db54ec7090639a9dc30ec4d608604936239d39e2de07fda09eb0b"
      [] OTHER -> "sha256:" \o p

\* The default settings of _seed_default_models, in insertion order.
default_settings ==
  <<
    <<"default_model", "groq">>,
    <<"system_prompt", "You are a helpful AI assistant. Default language: Bahasa Indonesia.">>,
    <<"max_memory_messages", "25">>,
    <<"memory_timeout_minutes", "30">>,
    <<"rate_limit_ai", "5">>,
    <<"rate_limit_img", "15">>,
    <<"rate_limit_dump", "10">>,
    <<"admin_password_hash", sha256("admin123")>>
  >>

\* The key of the stored operator credential hash.
PasswordHashKey == "admin_password_hash"

(***************************************************************************)
(* Bounds and input sets.                                                  *)
(***************************************************************************)
\* Most rows a log table is let to grow to.
MaxLogs == 2
\* Most times the clock advances.
MaxTicks == 2
\* Most session tokens generated.
MaxTokens == 2
\* Most api_keys rows ever inserted (per store).
MaxKeys == 2

\* Model ids the operations are called with: two catalog ids and a new one.
ModelIdInputs == {"groq", "groq_8b", "m1"}

\* Keyword arguments update_model is called with (JSON bodies of PUT
\* /api/models/<id>): accepted columns, an unknown column, and nothing.
ModelUpdateInputs ==
    { [is_default |-> 1], [is_default |-> 0],
      [is_enabled |-> 0, name |-> "Renamed"],
      [bogus |-> 1], EmptyTable }

(***************************************************************************)
(* database.py: ai_models and settings statements.                         *)
(***************************************************************************)
\* The column list update_model accepts.
valid_fields == {"emoji", "name", "description", "category", "provider",
                 "model_id", "is_enabled", "is_default", "priority"}

\* The row INSERT INTO ai_models (id, emoji, name, description, category,
\* provider, model_id) creates: the other columns take the schema defaults.
NewModelRow(id, emoji, name, description, category, provider, model_id) ==
    [id |-> id, emoji |-> emoji, name |-> name, description |-> description,
     category |-> category, provider |-> provider, model_id |-> model_id,
     is_enabled |-> 1, is_default |-> 0, priority |-> 100]

\* executemany INSERT OR IGNORE INTO ai_models of the catalog.
SeededModels(models) ==
    [id \in DOMAIN models \cup {default_models[i].id : i \in DOMAIN default_models} |->
        IF id \in DOMAIN models THEN models[id]
        ELSE (CHOOSE r \in Range(default_models) : r.id = id)]

\* A variant with INSERT OR REPLACE: a stored setting is overwritten.
SeededSettings_Replace(sett) ==
    [k \in DOMAIN sett \cup {default_settings[i][1] : i \in DOMAIN default_settings} |->
        IF k \in {default_settings[i][1] : i \in DOMAIN default_settings}
        THEN (CHOOSE p \in Range(default_settings) : p[1] = k)[2]
        ELSE sett[k]]

\* executemany INSERT OR IGNORE INTO settings of the default settings.
SeededSettings(sett) ==
    [k \in DOMAIN sett \cup {default_settings[i][1] : i \in DOMAIN default_settings} |->
        IF k \in DOMAIN sett THEN sett[k]
        ELSE (CHOOSE p \in Range(default_settings) : p[1] = k)[2]]

\* UPDATE ai_models SET <accepted columns of kwargs> WHERE id = model_id.
UpdatedModels(models, model_id, kwargs) ==
    [id \in DOMAIN models |->
        IF id # model_id THEN models[id]
        ELSE [c \in DOMAIN models[id] |->
                 IF c \in DOMAIN kwargs /\ c \in valid_fields
                 THEN kwargs[c] ELSE models[id][c]]]

\* A variant without the first UPDATE, which clears every flag.
DefaultSetModels_NoClear(models, model_id) ==
    [id \in DOMAIN models |->
        [models[id] EXCEPT !.is_default = IF id = model_id THEN 1 ELSE @]]

\* UPDATE ai_models SET is_default = 0; then SET is_default = 1 WHERE id = ?.
DefaultSetModels(models, model_id) ==
    [id \in DOMAIN models |->
        [models[id] EXCEPT !.is_default = IF id = model_id THEN 1 ELSE 0]]

\* The rows get_all_models reports as default: bool(is_default).
DefaultModels(models) == {id \in DOMAIN models : models[id].is_default # 0}

\* A call of a Database method and what it returned.
Ret(op, req, body) == [op |-> op, req |-> req, status |-> 0, body |-> body]

(***************************************************************************)
(* database.py: the Database methods on ai_models and settings, each one   *)
(* body under the lock.                                                    *)
(***************************************************************************)
\* Database._seed_default_models (the body under its lock).
SeedRet == Ret("db._seed_default_models", EmptyTable, [ok |-> TRUE])
Database_seed_default_models ==
    /\ ai_models' = IF Cardinality(DOMAIN ai_models) = 0
                    THEN SeededModels(ai_models) ELSE ai_models
    /\ settings' = IF Cardinality(DOMAIN ai_models) = 0
                   THEN SeededSettings(settings) ELSE settings
    /\ resp' = SeedRet
    /\ UNCHANGED <<api_keys, api_keys_seq, user_models, sessions, test_logs,
                   activity_logs, envVars, mainVars>>

\* What add_model returns: (success, message).
AddModelOk == [ok |-> TRUE, message |-> "Model added successfully"]
AddModelDuplicate == [ok |-> FALSE, message |-> "Model with this ID already exists"]

\* Database.add_model.
Database_add_model(id) ==
    /\ ai_models' = IF id \in DOMAIN ai_models THEN ai_models
                    ELSE Upsert(ai_models, id,
                                NewModelRow(id, "U+1F916", "Test", "", "custom", "groq", "llama-3"))
    /\ resp' = Ret("db.add_model", [id |-> id],
                   IF id \in DOMAIN ai_models THEN AddModelDuplicate ELSE AddModelOk)
    /\ UNCHANGED <<api_keys, api_keys_seq, user_models, settings, sessions,
                   test_logs, activity_logs, envVars, mainVars>>

\* Database.update_model.
Database_update_model(model_id, kwargs) ==
    /\ ai_models' = UpdatedModels(ai_models, model_id, kwargs)
    /\ resp' = Ret("db.update_model", [model_id |-> model_id, kwargs |-> kwargs], [ok |-> TRUE])
    /\ UNCHANGED <<api_keys, api_keys_seq, user_models, settings, sessions,
                   test_logs, activity_logs, envVars, mainVars>>

\* Database.delete_model.
Database_delete_model(model_id) ==
    /\ ai_models' = DeleteRow(ai_models, model_id)
    /\ resp' = Ret("db.delete_model", [model_id |-> model_id], [ok |-> TRUE])
    /\ UNCHANGED <<api_keys, api_keys_seq, user_models, settings, sessions,
                   test_logs, activity_logs, envVars, mainVars>>

\* A variant that looks the model up first and refuses an unknown id.
Database_set_default_model_Checked(model_id) ==
    /\ ai_models' = IF model_id \in DOMAIN ai_models
                    THEN DefaultSetModels(ai_models, model_id) ELSE ai_models
    /\ settings' = IF model_id \in DOMAIN ai_models
                   THEN Upsert(settings, "default_model", model_id) ELSE settings
    /\ resp' = Ret("db.set_default_model", [model_id |-> model_id],
                   [ok |-> model_id \in DOMAIN ai_models])
    /\ UNCHANGED <<api_keys, api_keys_seq, user_models, sessions, test_logs,
                   activity_logs, envVars, mainVars>>

\* Database.set_default_model.
Database_set_default_model(model_id) ==
    /\ ai_models' = DefaultSetModels(ai_models, model_id)
    /\ settings' = Upsert(settings, "default_model", model_id)
    /\ resp' = Ret("db.set_default_model", [model_id |-> model_id], [ok |-> TRUE])
    /\ UNCHANGED <<api_keys, api_keys_seq, user_models, sessions, test_logs,
                   activity_logs, envVars, mainVars>>

(***************************************************************************)
(* database.py: sessions.                                                  *)
(***************************************************************************)
\* The session lifetime create_session adds to the clock: 24 hours.
SESSION_TTL == 86400

\* Tokens secrets.token_urlsafe(32) can produce.
Tokens == {"tok" \o ToString(i) : i \in 1..MaxTokens}

\* Amounts the clock advances by.
ClockSteps == {1, SESSION_TTL - 1, SESSION_TTL + 1}

\* DELETE FROM sessions WHERE expires_at < now.
PurgedSessions(sess, t) == [k \in {x \in DOMAIN sess : ~(sess[x] < t)} |-> sess[k]]

\* Database.create_session on the sessions table, inside the lock: purge
\* at the clock t read there, then insert the new token with the expiry
\* computed before the lock was entered.
CreatedSessions(sess, token, expires, t) == Upsert(PurgedSessions(sess, t), token, expires)

\* Database.validate_session.
validate_session(token) ==
    IF token = "" THEN FALSE
    ELSE token \in DOMAIN sessions /\ sessions[token] > now

\* Database.get_setting.
get_setting(key, default) == IF key \in DOMAIN settings THEN settings[key] ELSE default

\* Database.set_setting stores str(value).  A JSON value is a record of
\* its type and its content.
JStr(s) == [t |-> "str", v |-> s]
JInt(n) == [t |-> "int", v |-> n]
PyStr(value) == IF value.t = "int" THEN ToString(value.v) ELSE value.v

\* Database.get_all_settings: every row of settings.
get_all_settings == settings

\* A call of Database.get_all_settings.
Database_get_all_settings ==
    /\ resp' = Ret("db.get_all_settings", EmptyTable, get_all_settings)
    /\ UNCHANGED <<dbVars, envVars, mainVars>>

\* Database.add_activity_log on the activity_logs table.
WithActivity(logs, action, details, ip) ==
    Append(logs, [action |-> action, details |-> details, ip |-> ip])

(***************************************************************************)
(* app.py: requests, responses and the two gates.                          *)
(***************************************************************************)
\* request.remote_addr of the caller.
RemoteAddr == "203.0.113.7"

\* Session tokens a request can carry: none, a never-issued one, or any
\* token that create_session can produce.
TokenInputs == {"", "bogus"} \cup Tokens

\* How a request carries them: <<session_token cookie, Authorization
\* header with 'Bearer ' removed>>.
Carriers ==
    {<<"", "">>, <<"bogus", "">>}
    \cup {<<t, "">> : t \in Tokens} \cup {<<"", t>> : t \in Tokens}
    \cup {<<"bogus", t>> : t \in Tokens}

\* The carriers of an operator's browser: no session yet, or the cookie
\* that login set.
CookieCarriers == {<<"", "">>} \cup {<<t, "">> : t \in Tokens}

\* A request and the response it got.
Http(op, req, status, body) == [op |-> op, req |-> req, status |-> status, body |-> body]

\* The token require_auth and check_auth read: the cookie, or else the
\* bearer header.
AuthToken(c) == IF c[1] # "" THEN c[1] ELSE c[2]

\* verify_password.
verify_password(password) ==
    LET stored == get_setting(PasswordHashKey, "")
        stored_hash == IF stored = "" THEN sha256("admin123") ELSE stored
    IN sha256(password) = stored_hash

\* A variant for a Database without the lock: any thread enters.
LockFree_NoLock == TRUE

\* `with self.lock` can be entered.
LockFree == lock = 0

\* A request of app.py in flight: the handler that serves it, what it was
\* sent, the Database call its handler makes next, and the handler's local
\* variables.  Flask serves every request on a thread of its own, and every
\* Database call enters and leaves Database.lock, so that the calls of
\* other requests run between two calls of one handler.
Request(op, req, pc) == [kind |-> op, req |-> req, pc |-> pc, loc |-> EmptyTable]

\* Thread t serves the request req in handler op and stands at pc.
At(t, op, req, pc) ==
    /\ t \in DOMAIN threads
    /\ threads[t].kind = op
    /\ threads[t].req = req
    /\ threads[t].pc = pc

\* A Database call of the handler on thread t has returned result; the
\* handler goes on to pc with the locals loc.
Goes(t, call, result, pc, loc) ==
    /\ threads' = [threads EXCEPT ![t].pc = pc, ![t].loc = loc]
    /\ resp' = Ret(threads[t].kind \o "." \o call, [t |-> t], result)

\* The handler on thread t returns its response.
Returns(t, status, body) ==
    /\ threads' = DeleteRow(threads, t)
    /\ resp' = Http(threads[t].kind, threads[t].req, status, body)

\* The requests in flight that are served by one of the handlers ops.
InFlight(ops) == {u \in DOMAIN threads : threads[u].kind \in ops}

\* The handlers that call add_activity_log.
LoggingOps == {"login", "add_key", "add_model", "set_default_model", "update_settings"}

\* Requests are sent as long as the rows they can add fit the bounds.
LogRoom == Len(activity_logs) + Cardinality(InFlight(LoggingOps)) < MaxLogs
KeyRoom == api_keys_seq + Cardinality(InFlight({"add_key"})) < MaxKeys
TestRoom == Len(test_logs) + Cardinality(InFlight({"test_key"})) < MaxLogs

\* A variant that lets the handler run whatever the token.
require_auth_Unchecked(op, t, c, req) ==
    /\ t \notin DOMAIN threads
    /\ threads' = Upsert(threads, t, Request(op, [c |-> c] @@ req, "body"))
    /\ resp' = Ret(op \o ".validate_session", [t |-> t, c |-> c], [ok |-> TRUE])
    /\ UNCHANGED <<dbVars, clockVars, lockVars, mainVars>>

\* The decorator require_auth when a request arrives on thread t:
\* validate_session, and either the 401 or the handler, whose first call
\* is a later step.  validate_session returns False for an empty token
\* before it enters the lock.
require_auth(op, t, c, req) ==
    /\ t \notin DOMAIN threads
    /\ AuthToken(c) = "" \/ LockFree
    /\ IF ~validate_session(AuthToken(c))
       THEN /\ resp' = Http(op, [c |-> c] @@ req, 401, [error |-> "Unauthorized"])
            /\ UNCHANGED <<dbVars, envVars, mainVars>>
       ELSE /\ threads' = Upsert(threads, t, Request(op, [c |-> c] @@ req, "body"))
            /\ resp' = Ret(op \o ".validate_session", [t |-> t, c |-> c], [ok |-> TRUE])
            /\ UNCHANGED <<dbVars, clockVars, lockVars, mainVars>>

\* The shared secret app.py is configured with.
BOT_SECRET == "bot_secret_key"

\* X-Bot-Secret header values: absent, wrong, and the two configured ones.
SecretInputs == {"", "wrong", "bot_secret_key", "bot_secret_key_123"}

\* The decorator require_bot_secret around the handler step f.
require_bot_secret(op, secret, f) ==
    IF secret # BOT_SECRET
    THEN /\ resp' = Http(op, [secret |-> secret], 403, [error |-> "Invalid bot secret"])
         /\ UNCHANGED <<dbVars, envVars, mainVars>>
    ELSE f

(***************************************************************************)
(* app.py: the clock and the auth endpoints.                               *)
(***************************************************************************)
\* Time passes.
TickRet == Ret("tick", EmptyTable, EmptyTable)
Tick(d) ==
    /\ ticks < MaxTicks
    /\ now' = now + d
    /\ ticks' = ticks + 1
    /\ resp' = TickRet
    /\ UNCHANGED <<dbVars, issued, deleted, concVars, mainVars>>

\* Passwords tried at login.
PasswordInputs == {"admin123", "wrong", "hunter22"}

\* POST /api/auth/login on thread t: verify_password (get_setting), then
\* create_session, then add_activity_log, one Database call a step; token
\* is what secrets.token_urlsafe will return in create_session, a token
\* never produced before.  create_session reads the clock for the expiry
\* before it enters the lock, and reads it again inside for the purge: the
\* two reads are two steps, and the clock can advance between them.
login(t, password, token) ==
    LET req == [password |-> password] IN
    \/ /\ t \notin DOMAIN threads
       /\ LockFree
       /\ IF verify_password(password)
          THEN /\ LogRoom
               /\ token \in Tokens \ DOMAIN issued
               /\ \A u \in InFlight({"login"}) : threads[u].loc.token # token
               /\ threads' = Upsert(threads, t,
                     [Request("login", req, "create_session") EXCEPT !.loc = [token |-> token]])
               /\ resp' = Ret("login.get_setting", [t |-> t], [ok |-> TRUE])
               /\ UNCHANGED <<dbVars, clockVars, lockVars, mainVars>>
          ELSE /\ resp' = Http("login", req, 401, [error |-> "Invalid password"])
               /\ UNCHANGED <<dbVars, envVars, mainVars>>
    \/ /\ At(t, "login", req, "create_session")
       /\ threads[t].loc.token = token
       /\ Goes(t, "create_session.expires", [expires |-> now + SESSION_TTL],
               "create_session.lock", [token |-> token, expires |-> now + SESSION_TTL])
       /\ UNCHANGED <<dbVars, clockVars, lockVars, mainVars>>
    \/ /\ At(t, "login", req, "create_session.lock")
       /\ threads[t].loc.token = token
       /\ LockFree
       /\ issued' = Upsert(issued, token, threads[t].loc.expires - SESSION_TTL)
       /\ sessions' = CreatedSessions(sessions, token, threads[t].loc.expires, now)
       /\ Goes(t, "create_session", [token |-> token], "add_activity_log", threads[t].loc)
       /\ UNCHANGED <<api_keys, api_keys_seq, ai_models, user_models, settings,
                      test_logs, activity_logs, now, ticks, deleted, lockVars, mainVars>>
    \/ /\ At(t, "login", req, "add_activity_log")
       /\ threads[t].loc.token = token
       /\ LockFree
       /\ activity_logs' = WithActivity(activity_logs, "Login", "Admin logged in", RemoteAddr)
       /\ Returns(t, 200, [success |-> TRUE, token |-> token])
       /\ UNCHANGED <<api_keys, api_keys_seq, ai_models, user_models, settings, sessions,
                      test_logs, clockVars, lockVars, mainVars>>

\* POST /api/auth/logout: reads the session_token cookie only; its one
\* Database call is delete_session, made only when the cookie is there.
logout(c) ==
    /\ c[1] = "" \/ LockFree
    /\ sessions' = IF c[1] # "" THEN DeleteRow(sessions, c[1]) ELSE sessions
    /\ deleted' = IF c[1] # "" THEN deleted \cup ({c[1]} \cap DOMAIN issued) ELSE deleted
    /\ resp' = Http("logout", [c |-> c], 200, [success |-> TRUE])
    /\ UNCHANGED <<api_keys, api_keys_seq, ai_models, user_models, settings,
                   test_logs, activity_logs, now, ticks, issued, concVars, mainVars>>

\* GET /api/auth/check: its one Database call is validate_session, which
\* returns False for an empty token before it enters the lock.
check_auth(c) ==
    /\ AuthToken(c) = "" \/ LockFree
    /\ resp' = Http("check_auth", [c |-> c], 200,
                    [authenticated |-> validate_session(AuthToken(c))])
    /\ UNCHANGED <<dbVars, envVars, mainVars>>

\* POST /api/auth/change-password on thread t: the gate, verify_password
\* (get_setting), then set_setting.
change_password(t, c, current, new) ==
    LET req == [c |-> c, current |-> current, new |-> new] IN
    \/ require_auth("change_password", t, c, [current |-> current, new |-> new])
    \/ /\ At(t, "change_password", req, "body")
       /\ LockFree
       /\ IF ~verify_password(current)
          THEN Returns(t, 400, [error |-> "Current password is incorrect"])
          ELSE IF Len(new) < 6
          THEN Returns(t, 400, [error |-> "New password must be at least 6 characters"])
          ELSE Goes(t, "get_setting", [ok |-> TRUE], "set_setting", EmptyTable)
       /\ UNCHANGED <<dbVars, clockVars, lockVars, mainVars>>
    \/ /\ At(t, "change_password", req, "set_setting")
       /\ LockFree
       /\ settings' = Upsert(settings, PasswordHashKey, sha256(new))
       /\ Returns(t, 200, [success |-> TRUE])
       /\ UNCHANGED <<api_keys, api_keys_seq, ai_models, user_models, sessions,
                      test_logs, activity_logs, clockVars, lockVars, mainVars>>

(***************************************************************************)
(* database.py and app.py: API keys.                                       *)
(***************************************************************************)
\* Secret values sent by the operator: a 16-character one, a short one,
\* and one of blanks only.
KeyValueInputs ==
    { <<"s","k","-","t","e","s","t","1","2","3","4","5","6","7","8","9">>,
      <<"a","b","c">>,
      <<" ">> }

\* Provider names sent by the operator.
KeyNameInputs == {"groq", " groq ", "mykey"}

\* str.strip() on a secret value.
RECURSIVE LStrip(_)
LStrip(s) == IF s # <<>> /\ Head(s) = " " THEN LStrip(Tail(s)) ELSE s
RECURSIVE RStrip(_)
RStrip(s) == IF s # <<>> /\ s[Len(s)] = " " THEN RStrip(SubSeq(s, 1, Len(s) - 1)) ELSE s
strip(s) == RStrip(LStrip(s))

\* str.strip() on the provider names of KeyNameInputs.
strip_name(s) == IF s = " groq " THEN "groq" ELSE s

\* The row INSERT INTO api_keys (name, key_value, provider) creates.
NewKeyRow(id, name, key_value, provider) ==
    [id |-> id, name |-> name, key_value |-> key_value, provider |-> provider,
     is_active |-> 1, last_tested |-> -1, test_status |-> "NULL"]

\* A variant for a table whose name column has no UNIQUE constraint: no
\* insert ever meets a stored name.
KeyNames_NoUnique(keys) == {}

\* The names stored in an api_keys table.
KeyNames(keys) == {keys[i].name : i \in DOMAIN keys}

\* Database.get_all_api_keys: the rows, with is_active as a bool.
get_all_api_keys ==
    {[id |-> r.id, name |-> r.name, key_value |-> r.key_value, provider |-> r.provider,
      is_active |-> (r.is_active # 0), last_tested |-> r.last_tested,
      test_status |-> r.test_status] : r \in {api_keys[i] : i \in DOMAIN api_keys}}

\* A variant without `AND is_active = 1`: a deactivated row is found too.
get_api_key_AnyRow(name) ==
    IF \E i \in DOMAIN api_keys : api_keys[i].name = name
    THEN (CHOOSE r \in {api_keys[i] : i \in DOMAIN api_keys} : r.name = name).key_value
    ELSE <<>>

\* Database.get_api_key: the secret of the active row of that name, or <<>>.
get_api_key(name) ==
    IF \E i \in DOMAIN api_keys : api_keys[i].name = name /\ api_keys[i].is_active = 1
    THEN (CHOOSE r \in {api_keys[i] : i \in DOMAIN api_keys} :
              r.name = name /\ r.is_active = 1).key_value
    ELSE <<>>

\* The masked form get_keys computes from a secret value.
Masked(kv) ==
    IF Len(kv) > 12
    THEN SubSeq(kv, 1, 8) \o <<".", ".", ".">> \o SubSeq(kv, Len(kv) - 3, Len(kv))
    ELSE <<"*", "*", "*", "*">>

\* One row of the GET /api/keys listing: key_masked is added when the row
\* has a secret value.
ListedKey(k) == IF k.key_value # <<>> THEN k @@ [key_masked |-> Masked(k.key_value)] ELSE k

\* An optional argument: None, or a value.
None == [has |-> FALSE]
Some(v) == [has |-> TRUE, v |-> v]

\* A variant that writes every column of the row, an absent one as empty.
UpdatedKeys_Full(keys, key_id, key_value, is_active) ==
    [i \in DOMAIN keys |->
        IF i # key_id THEN keys[i]
        ELSE [keys[i] EXCEPT
                !.key_value = IF key_value.has THEN key_value.v ELSE <<>>,
                !.is_active = IF is_active.has /\ is_active.v THEN 1 ELSE 0]]

\* UPDATE api_keys SET ... WHERE id = key_id, as update_api_key builds it.
UpdatedKeys(keys, key_id, key_value, is_active) ==
    [i \in DOMAIN keys |->
        IF i # key_id THEN keys[i]
        ELSE [keys[i] EXCEPT
                !.key_value = IF key_value.has THEN key_value.v ELSE @,
                !.is_active = IF is_active.has THEN (IF is_active.v THEN 1 ELSE 0) ELSE @]]

\* GET /api/keys on thread t: the gate, then get_all_api_keys.
get_keys(t, c) ==
    \/ require_auth("get_keys", t, c, EmptyTable)
    \/ /\ At(t, "get_keys", [c |-> c], "body")
       /\ LockFree
       /\ Returns(t, 200, [list |-> {ListedKey(k) : k \in get_all_api_keys}])
       /\ UNCHANGED <<dbVars, clockVars, lockVars, mainVars>>

\* POST /api/keys on thread t: the gate, add_api_key, add_activity_log.
add_key(t, c, name_in, key_in) ==
    LET name == strip_name(name_in)
        key_value == strip(key_in)
        req == [c |-> c, name |-> name_in, key_value |-> key_in]
    IN
    \/ /\ ~validate_session(AuthToken(c)) \/ (LogRoom /\ KeyRoom)
       /\ require_auth("add_key", t, c, [name |-> name_in, key_value |-> key_in])
    \/ /\ At(t, "add_key", req, "body")
       /\ IF name = "" \/ key_value = <<>>
          THEN /\ Returns(t, 400, [error |-> "Name and key value are required"])
               /\ UNCHANGED <<dbVars, clockVars, lockVars, mainVars>>
          ELSE /\ LockFree
               /\ IF name \in KeyNames(api_keys)
                  THEN /\ Returns(t, 400, [error |-> "API key with this name already exists"])
                       /\ UNCHANGED <<dbVars, clockVars, lockVars, mainVars>>
                  ELSE /\ api_keys_seq' = api_keys_seq + 1
                       /\ api_keys' = Upsert(api_keys, api_keys_seq + 1,
                                             NewKeyRow(api_keys_seq + 1, name, key_value, "custom"))
                       /\ Goes(t, "add_api_key", [ok |-> TRUE], "add_activity_log", EmptyTable)
                       /\ UNCHANGED <<ai_models, user_models, settings, sessions, test_logs,
                                      activity_logs, clockVars, lockVars, mainVars>>
    \/ /\ At(t, "add_key", req, "add_activity_log")
       /\ LockFree
       /\ activity_logs' = WithActivity(activity_logs, "API Key Added", "Added: " \o name,
                                        RemoteAddr)
       /\ Returns(t, 200, [success |-> TRUE])
       /\ UNCHANGED <<api_keys, api_keys_seq, ai_models, user_models, settings, sessions,
                      test_logs, clockVars, lockVars, mainVars>>

\* JSON bodies of PUT /api/keys/<id>: <<key_value, is_active>>.
KeyUpdateInputs ==
    { <<None, Some(FALSE)>>, <<None, Some(TRUE)>>, <<None, None>>,
      <<Some(<<"n","e","w">>), None>>, <<Some(<<>>), None>> }

\* Ids PUT and DELETE /api/keys/<id> are called with.
KeyIdInputs == 1..MaxKeys

\* PUT /api/keys/<id> on thread t: the gate, then update_api_key.
update_key(t, c, key_id, u) ==
    \/ require_auth("update_key", t, c, [key_id |-> key_id, u |-> u])
    \/ /\ At(t, "update_key", [c |-> c, key_id |-> key_id, u |-> u], "body")
       /\ LockFree
       /\ api_keys' = UpdatedKeys(api_keys, key_id, u[1], u[2])
       /\ Returns(t, 200, [success |-> TRUE])
       /\ UNCHANGED <<api_keys_seq, ai_models, user_models, settings, sessions,
                      test_logs, activity_logs, clockVars, lockVars, mainVars>>

\* DELETE /api/keys/<id> on thread t: the gate, then delete_api_key.
delete_key(t, c, key_id) ==
    \/ require_auth("delete_key", t, c, [key_id |-> key_id])
    \/ /\ At(t, "delete_key", [c |-> c, key_id |-> key_id], "body")
       /\ LockFree
       /\ api_keys' = DeleteRow(api_keys, key_id)
       /\ Returns(t, 200, [success |-> TRUE])
       /\ UNCHANGED <<api_keys_seq, ai_models, user_models, settings, sessions,
                      test_logs, activity_logs, clockVars, lockVars, mainVars>>

\* Providers test_key knows an endpoint for.
TestEndpoints == {"groq", "cerebras", "openrouter", "mistral", "together",
                  "sambanova", "gemini", "cohere", "tavily"}

\* What the outbound call of test_key does: HTTP 200, another status, or
\* an exception (timeout, network error).
CallOutcomes == {"200", "500", "exception"}

\* Database.update_api_test_result on api_keys.
TestedKeys(keys, name, status, t) ==
    [i \in DOMAIN keys |->
        IF keys[i].name = name
        THEN [keys[i] EXCEPT !.last_tested = t, !.test_status = status]
        ELSE keys[i]]

\* The 404 body of test_key.
KeyNotFound == [error |-> "Key not found", success |-> FALSE]

(***************************************************************************)
(* database.py: update_api_test_result, statement by statement, for calls  *)
(* that run on several threads.  Every call opens a connection of its own; *)
(* its UPDATE and INSERT are one sqlite transaction, applied by commit.    *)
(***************************************************************************)
\* Calls of update_api_test_result that are made.
MaxCalls == 2

\* The provider name call t is made for: a different one for each call.
CallName(t) == "key" \o ToString(t)

\* Database.add_api_key, called with no other call inside the lock.
Database_add_api_key(name, key_value, provider) ==
    /\ lock = 0
    /\ api_keys_seq < MaxCalls
    /\ IF name \in KeyNames(api_keys)
       THEN /\ resp' = Ret("db.add_api_key", [name |-> name],
                           [ok |-> FALSE, message |-> "API key with this name already exists"])
            /\ UNCHANGED <<api_keys, api_keys_seq>>
       ELSE /\ api_keys_seq' = api_keys_seq + 1
            /\ api_keys' = Upsert(api_keys, api_keys_seq + 1,
                                  NewKeyRow(api_keys_seq + 1, name, key_value, provider))
            /\ resp' = Ret("db.add_api_key", [name |-> name],
                           [ok |-> TRUE, message |-> "API key added successfully"])
    /\ UNCHANGED <<ai_models, user_models, settings, sessions, test_logs, activity_logs,
                   envVars, mainVars>>

\* A thread calls update_api_test_result(CallName(t), status).
update_api_test_result_begin(t, status) ==
    /\ t \notin DOMAIN threads
    /\ threads' = Upsert(threads, t,
          [kind |-> "update_api_test_result", name |-> CallName(t), status |-> status,
           message |-> "NULL", pc |-> "acquire", matched |-> FALSE])
    /\ UNCHANGED <<dbVars, now, ticks, issued, deleted, lock, db_lock, mainVars, resp>>

\* Another connection is inside a write transaction: it holds sqlite's
\* write lock on the file from its first statement to its commit, or, when
\* the INSERT of add_api_key raised IntegrityError, to its close.  A call
\* of update_api_test_result has run its UPDATE at pc insert and commit; a
\* call of add_api_key is before its INSERT at pc insert.
WriterActive(t) ==
    \E u \in DOMAIN threads \ {t} :
        \/ /\ threads[u].kind \in {"update_api_test_result", "test_key"}
           /\ threads[u].pc \in {"insert", "commit"}
        \/ /\ threads[u].kind = "add_api_key"
           /\ threads[u].pc = "commit" \/ (threads[u].pc = "close" /\ threads[u].matched)

\* The test_logs row update_api_test_result inserts.
TestLogRow(th) ==
    [api_name |-> th.name, status |-> th.status,
     error_message |-> IF th.status = "success" THEN "NULL" ELSE th.message]

\* What the caller of update_api_test_result gets when it returns; test_key
\* returns its result right after.
TestResultRet(t) ==
    IF threads[t].kind = "test_key"
    THEN Http("test_key", threads[t].req, 200,
              [success |-> threads[t].status = "success", message |-> threads[t].message])
    ELSE Ret("db.update_api_test_result",
             [t |-> t, name |-> threads[t].name, status |-> threads[t].status], [ok |-> TRUE])

\* The next step of update_api_test_result in thread t: enter the lock,
\* UPDATE, INSERT, commit, leave the lock.  A statement that starts a write
\* while another connection holds the write lock waits and, at the
\* timeout, raises "database is locked".
update_api_test_result_step(t) ==
    /\ t \in DOMAIN threads
    /\ LET th == threads[t] IN
       CASE th.pc = "acquire" ->
              /\ LockFree
              /\ lock' = t
              /\ threads' = [threads EXCEPT ![t].pc = "update"]
              /\ UNCHANGED <<dbVars, resp>>
         [] th.pc = "update" ->
              /\ threads' = [threads EXCEPT
                               ![t].pc = IF WriterActive(t) THEN "raised" ELSE "insert"]
              /\ lock' = IF WriterActive(t) /\ lock = t THEN 0 ELSE lock
              /\ UNCHANGED <<dbVars, resp>>
         [] th.pc = "insert" ->
              /\ threads' = [threads EXCEPT ![t].pc = "commit"]
              /\ UNCHANGED <<dbVars, lock, resp>>
         [] th.pc = "commit" ->
              /\ api_keys' = TestedKeys(api_keys, th.name, th.status, now)
              /\ test_logs' = Append(test_logs, TestLogRow(th))
              /\ threads' = [threads EXCEPT ![t].pc = "release",
                                            ![t].matched = th.name \in KeyNames(api_keys)]
              /\ UNCHANGED <<api_keys_seq, ai_models, user_models, settings, sessions,
                             activity_logs, lock, resp>>
         [] th.pc = "release" ->
              /\ lock' = IF lock = t THEN 0 ELSE lock
              /\ threads' = IF th.kind = "test_key" THEN DeleteRow(threads, t)
                            ELSE [threads EXCEPT ![t].pc = "done"]
              /\ resp' = TestResultRet(t)
              /\ UNCHANGED dbVars
         [] OTHER -> FALSE
    /\ UNCHANGED <<now, ticks, issued, deleted, db_lock, mainVars>>

(***************************************************************************)
(* app.py: test_key, call by call, on a thread of its own: the session     *)
(* check and get_api_key, the outbound call, update_api_test_result.       *)
(***************************************************************************)
\* A variant that enters the lock for the whole request: get_api_key runs
\* inside it and the outbound call starts with the lock held.
test_key_Locked(t, c, name) ==
    LET req == [c |-> c, name |-> name] IN
    \/ /\ ~validate_session(AuthToken(c)) \/ TestRoom
       /\ require_auth("test_key", t, c, [name |-> name])
    \/ /\ At(t, "test_key", req, "body")
       /\ LockFree
       /\ IF get_api_key(name) = <<>>
          THEN /\ Returns(t, 404, KeyNotFound)
               /\ UNCHANGED lock
          ELSE /\ threads' = [threads EXCEPT ![t] =
                     [kind |-> "test_key", req |-> req, name |-> name, status |-> "NULL",
                      message |-> "Unknown provider", pc |-> "call", matched |-> FALSE]]
               /\ resp' = Ret("test_key.get_api_key", [t |-> t], [ok |-> TRUE])
               /\ lock' = t
       /\ UNCHANGED <<dbVars, clockVars, db_lock, mainVars>>

\* POST /api/keys/test/<name> on thread t: the gate, then get_api_key; the
\* outbound call and update_api_test_result are the steps after.
test_key(t, c, name) ==
    LET req == [c |-> c, name |-> name] IN
    \/ /\ ~validate_session(AuthToken(c)) \/ TestRoom
       /\ require_auth("test_key", t, c, [name |-> name])
    \/ /\ At(t, "test_key", req, "body")
       /\ LockFree
       /\ IF get_api_key(name) = <<>>
          THEN /\ Returns(t, 404, KeyNotFound)
               /\ UNCHANGED lock
          ELSE /\ threads' = [threads EXCEPT ![t] =
                     [kind |-> "test_key", req |-> req, name |-> name, status |-> "NULL",
                      message |-> "Unknown provider", pc |-> "call", matched |-> FALSE]]
               /\ resp' = Ret("test_key.get_api_key", [t |-> t], [ok |-> TRUE])
               /\ UNCHANGED lock
       /\ UNCHANGED <<dbVars, clockVars, db_lock, mainVars>>

\* The outbound call of thread t returns; update_api_test_result is next.
test_key_call(t, outcome) ==
    /\ t \in DOMAIN threads
    /\ threads[t].pc = "call"
    /\ LET name == threads[t].name
           success == name \in TestEndpoints /\ outcome = "200"
           message == IF name \notin TestEndpoints THEN "Unknown provider"
                      ELSE IF outcome = "200" THEN "Working!"
                      ELSE IF outcome = "500" THEN "HTTP 500"
                      ELSE "exception"
       IN threads' = [threads EXCEPT ![t].pc = "acquire",
                                     ![t].status = IF success THEN "success" ELSE "failed",
                                     ![t].message = message]
    /\ UNCHANGED <<dbVars, now, ticks, issued, deleted, lock, db_lock, mainVars, resp>>

(***************************************************************************)
(* app.py: models.                                                         *)
(***************************************************************************)
\* Database.get_all_models: the rows, with the two flags as bools.
get_all_models ==
    {[r EXCEPT !.is_enabled = (r.is_enabled # 0), !.is_default = (r.is_default # 0)] :
        r \in {ai_models[i] : i \in DOMAIN ai_models}}

\* A variant whose SELECT has no WHERE is_enabled = 1.
get_enabled_models_All ==
    [id \in DOMAIN ai_models |->
        [e |-> ai_models[id].emoji, n |-> ai_models[id].name,
         d |-> ai_models[id].description, c |-> ai_models[id].category,
         p |-> ai_models[id].provider, m |-> ai_models[id].model_id]]

\* Database.get_enabled_models: id -> compact descriptor of the enabled rows.
get_enabled_models ==
    [id \in {i \in DOMAIN ai_models : ai_models[i].is_enabled = 1} |->
        [e |-> ai_models[id].emoji, n |-> ai_models[id].name,
         d |-> ai_models[id].description, c |-> ai_models[id].category,
         p |-> ai_models[id].provider, m |-> ai_models[id].model_id]]

\* GET /api/models on thread t: the gate, then get_all_models.
get_models(t, c) ==
    \/ require_auth("get_models", t, c, EmptyTable)
    \/ /\ At(t, "get_models", [c |-> c], "body")
       /\ LockFree
       /\ Returns(t, 200, [list |-> get_all_models])
       /\ UNCHANGED <<dbVars, clockVars, lockVars, mainVars>>

\* JSON bodies of POST /api/models.
AddModelInputs ==
    { [id |-> "m1", name |-> "Test", provider |-> "groq", model_id |-> "llama-3"],
      [id |-> "groq", name |-> "Test", provider |-> "groq", model_id |-> "llama-3"],
      [id |-> "m1", name |-> "", provider |-> "groq", model_id |-> "llama-3"],
      [id |-> "m1", name |-> "Test", provider |-> "groq"] }

\* A variant that only looks for the key: an empty value passes.
Missing_KeyOnly(data, f) == f \notin DOMAIN data

\* dict.get(f) being falsy: the field is missing or empty.
Missing(data, f) == f \notin DOMAIN data \/ data[f] = ""

\* The required fields of add_model, in the order they are checked.
required == <<"id", "name", "provider", "model_id">>

\* POST /api/models on thread t: the gate, Database.add_model,
\* add_activity_log.
add_model(t, c, data) ==
    LET req == [c |-> c, data |-> data]
        bad == {i \in DOMAIN required : Missing(data, required[i])}
        first == CHOOSE i \in bad : \A j \in bad : i <= j
    IN
    \/ /\ ~validate_session(AuthToken(c)) \/ LogRoom
       /\ require_auth("add_model", t, c, [data |-> data])
    \/ /\ At(t, "add_model", req, "body")
       /\ IF bad # {}
          THEN /\ Returns(t, 400, [error |-> required[first] \o " is required"])
               /\ UNCHANGED <<dbVars, clockVars, lockVars, mainVars>>
          ELSE /\ LockFree
               /\ IF data.id \in DOMAIN ai_models
                  THEN /\ Returns(t, 400, [error |-> "Model with this ID already exists"])
                       /\ UNCHANGED <<dbVars, clockVars, lockVars, mainVars>>
                  ELSE /\ ai_models' = Upsert(ai_models, data.id,
                              NewModelRow(data.id, "U+1F916", data.name, "", "custom",
                                          data.provider, data.model_id))
                       /\ Goes(t, "add_model", [ok |-> TRUE], "add_activity_log", EmptyTable)
                       /\ UNCHANGED <<api_keys, api_keys_seq, user_models, settings, sessions,
                                      test_logs, activity_logs, clockVars, lockVars, mainVars>>
    \/ /\ At(t, "add_model", req, "add_activity_log")
       /\ LockFree
       /\ activity_logs' = WithActivity(activity_logs, "Model Added", "Added: " \o data.id,
                                        RemoteAddr)
       /\ Returns(t, 200, [success |-> TRUE])
       /\ UNCHANGED <<api_keys, api_keys_seq, ai_models, user_models, settings, sessions,
                      test_logs, clockVars, lockVars, mainVars>>

\* JSON bodies of PUT /api/models/<id>: those of ModelUpdateInputs, and one
\* that names the model_id column.
ModelPutInputs == ModelUpdateInputs \cup {[model_id |-> "llama-4"]}

\* PUT /api/models/<id> on thread t: the gate, then Database.update_model
\* with the body passed on as keyword arguments, so a body with a model_id
\* key collides with the positional parameter and the call raises TypeError
\* before it enters the lock.
update_model(t, c, model_id, data) ==
    \/ require_auth("update_model", t, c, [model_id |-> model_id, data |-> data])
    \/ /\ At(t, "update_model", [c |-> c, model_id |-> model_id, data |-> data], "body")
       /\ IF "model_id" \in DOMAIN data
          THEN /\ Returns(t, 500, [error |-> "Internal Server Error"])
               /\ UNCHANGED <<dbVars, clockVars, lockVars, mainVars>>
          ELSE /\ LockFree
               /\ ai_models' = UpdatedModels(ai_models, model_id, data)
               /\ Returns(t, 200, [success |-> TRUE])
               /\ UNCHANGED <<api_keys, api_keys_seq, user_models, settings, sessions,
                              test_logs, activity_logs, clockVars, lockVars, mainVars>>

\* DELETE /api/models/<id> on thread t: the gate, then Database.delete_model.
delete_model(t, c, model_id) ==
    \/ require_auth("delete_model", t, c, [model_id |-> model_id])
    \/ /\ At(t, "delete_model", [c |-> c, model_id |-> model_id], "body")
       /\ LockFree
       /\ ai_models' = DeleteRow(ai_models, model_id)
       /\ Returns(t, 200, [success |-> TRUE])
       /\ UNCHANGED <<api_keys, api_keys_seq, user_models, settings, sessions,
                      test_logs, activity_logs, clockVars, lockVars, mainVars>>

\* POST /api/models/<id>/toggle on thread t: the gate, then
\* Database.update_model.
toggle_model(t, c, model_id, enabled) ==
    \/ require_auth("toggle_model", t, c, [model_id |-> model_id, enabled |-> enabled])
    \/ /\ At(t, "toggle_model", [c |-> c, model_id |-> model_id, enabled |-> enabled], "body")
       /\ LockFree
       /\ ai_models' = UpdatedModels(ai_models, model_id,
                                     [is_enabled |-> IF enabled THEN 1 ELSE 0])
       /\ Returns(t, 200, [success |-> TRUE])
       /\ UNCHANGED <<api_keys, api_keys_seq, user_models, settings, sessions,
                      test_logs, activity_logs, clockVars, lockVars, mainVars>>

\* POST /api/models/<id>/set-default on thread t: the gate,
\* Database.set_default_model, add_activity_log.
set_default_model(t, c, model_id) ==
    LET req == [c |-> c, model_id |-> model_id] IN
    \/ /\ ~validate_session(AuthToken(c)) \/ LogRoom
       /\ require_auth("set_default_model", t, c, [model_id |-> model_id])
    \/ /\ At(t, "set_default_model", req, "body")
       /\ LockFree
       /\ ai_models' = DefaultSetModels(ai_models, model_id)
       /\ settings' = Upsert(settings, "default_model", model_id)
       /\ Goes(t, "set_default_model", [ok |-> TRUE], "add_activity_log", EmptyTable)
       /\ UNCHANGED <<api_keys, api_keys_seq, user_models, sessions, test_logs,
                      activity_logs, clockVars, lockVars, mainVars>>
    \/ /\ At(t, "set_default_model", req, "add_activity_log")
       /\ LockFree
       /\ activity_logs' = WithActivity(activity_logs, "Default Model Changed",
                                        "Set: " \o model_id, RemoteAddr)
       /\ Returns(t, 200, [success |-> TRUE])
       /\ UNCHANGED <<api_keys, api_keys_seq, ai_models, user_models, settings, sessions,
                      test_logs, clockVars, lockVars, mainVars>>

\* POST /api/models/reset on thread t: the gate; Database has no
\* reset_models method, so the handler raises AttributeError before
\* anything is written.
reset_models(t, c) ==
    \/ require_auth("reset_models", t, c, EmptyTable)
    \/ /\ At(t, "reset_models", [c |-> c], "body")
       /\ Returns(t, 500, [error |-> "Internal Server Error"])
       /\ UNCHANGED <<dbVars, clockVars, lockVars, mainVars>>

(***************************************************************************)
(* app.py: user-model overrides, settings, logs, stats, bot config.        *)
(***************************************************************************)
\* User ids and JSON bodies of PUT /api/user-models/<user_id>.
UserIdInputs == {"u1"}
UserModelInputs == {[model_id |-> "groq"], [model_id |-> "nosuch"], EmptyTable}

\* GET /api/user-models on thread t: the gate, then get_all_user_models.
get_user_models(t, c) ==
    \/ require_auth("get_user_models", t, c, EmptyTable)
    \/ /\ At(t, "get_user_models", [c |-> c], "body")
       /\ LockFree
       /\ Returns(t, 200, user_models)
       /\ UNCHANGED <<dbVars, clockVars, lockVars, mainVars>>

\* PUT /api/user-models/<user_id> on thread t: the gate, then
\* Database.set_user_model.
set_user_model(t, c, user_id, data) ==
    \/ require_auth("set_user_model", t, c, [user_id |-> user_id, data |-> data])
    \/ /\ At(t, "set_user_model", [c |-> c, user_id |-> user_id, data |-> data], "body")
       /\ IF Missing(data, "model_id")
          THEN /\ Returns(t, 400, [error |-> "model_id required"])
               /\ UNCHANGED <<dbVars, clockVars, lockVars, mainVars>>
          ELSE /\ LockFree
               /\ user_models' = Upsert(user_models, user_id, data.model_id)
               /\ Returns(t, 200, [success |-> TRUE])
               /\ UNCHANGED <<api_keys, api_keys_seq, ai_models, settings, sessions,
                              test_logs, activity_logs, clockVars, lockVars, mainVars>>

\* DELETE /api/user-models/<user_id> on thread t: the gate, then
\* Database.delete_user_model.
delete_user_model(t, c, user_id) ==
    \/ require_auth("delete_user_model", t, c, [user_id |-> user_id])
    \/ /\ At(t, "delete_user_model", [c |-> c, user_id |-> user_id], "body")
       /\ LockFree
       /\ user_models' = DeleteRow(user_models, user_id)
       /\ Returns(t, 200, [success |-> TRUE])
       /\ UNCHANGED <<api_keys, api_keys_seq, ai_models, settings, sessions,
                      test_logs, activity_logs, clockVars, lockVars, mainVars>>

\* GET /api/settings on thread t: the gate, then get_all_settings with the
\* password hash popped.
get_settings(t, c) ==
    \/ require_auth("get_settings", t, c, EmptyTable)
    \/ /\ At(t, "get_settings", [c |-> c], "body")
       /\ LockFree
       /\ Returns(t, 200,
             [k \in DOMAIN get_all_settings \ {PasswordHashKey} |-> get_all_settings[k]])
       /\ UNCHANGED <<dbVars, clockVars, lockVars, mainVars>>

\* JSON bodies of PUT /api/settings.
SettingsInputs ==
    { [default_model |-> JStr("groq_8b")],
      [admin_password_hash |-> JStr("evil"), rate_limit_ai |-> JInt(7)],
      [admin_password_hash |-> JStr("evil")],
      EmptyTable }

\* The loop of update_settings: set_setting for every key of the body but
\* the password hash.
SettingsAfterUpdate(sett, data) ==
    [k \in DOMAIN sett \cup (DOMAIN data \ {PasswordHashKey}) |->
        IF k \in DOMAIN data \ {PasswordHashKey} THEN PyStr(data[k]) ELSE sett[k]]

\* PUT /api/settings on thread t: the gate, one set_setting for every key
\* of the body but the password hash, in the order of the body, then
\* add_activity_log.  loc.done holds the keys already written.
update_settings(t, c, data) ==
    LET req == [c |-> c, data |-> data] IN
    \/ /\ ~validate_session(AuthToken(c)) \/ LogRoom
       /\ require_auth("update_settings", t, c, [data |-> data])
    \/ /\ At(t, "update_settings", req, "body")
       /\ LockFree
       /\ LET done == IF "done" \in DOMAIN threads[t].loc THEN threads[t].loc.done ELSE {}
              todo == (DOMAIN data \ {PasswordHashKey}) \ done
          IN IF todo = {}
             THEN /\ activity_logs' = WithActivity(activity_logs, "Settings Updated", "NULL",
                                                   RemoteAddr)
                  /\ Returns(t, 200, [success |-> TRUE])
                  /\ UNCHANGED settings
             ELSE \E k \in todo :
                     /\ settings' = SettingsAfterUpdate(settings, [x \in {k} |-> data[x]])
                     /\ Goes(t, "set_setting", [ok |-> TRUE], "body", [done |-> done \cup {k}])
                     /\ UNCHANGED activity_logs
       /\ UNCHANGED <<api_keys, api_keys_seq, ai_models, user_models, sessions,
                      test_logs, clockVars, lockVars, mainVars>>

\* ORDER BY id DESC LIMIT n over a log kept in id order.
RECURSIVE Reversed(_)
Reversed(s) == IF s = <<>> THEN <<>> ELSE Append(Reversed(Tail(s)), Head(s))
MostRecent(log, n) == SubSeq(Reversed(log), 1, IF Len(log) < n THEN Len(log) ELSE n)

\* The limit the two log endpoints pass.
LOG_LIMIT == 50

\* GET /api/logs/activity on thread t: the gate, then get_activity_logs.
get_activity_logs(t, c) ==
    \/ require_auth("get_activity_logs", t, c, EmptyTable)
    \/ /\ At(t, "get_activity_logs", [c |-> c], "body")
       /\ LockFree
       /\ Returns(t, 200, [list |-> MostRecent(activity_logs, LOG_LIMIT)])
       /\ UNCHANGED <<dbVars, clockVars, lockVars, mainVars>>

\* GET /api/logs/tests on thread t: the gate, then get_test_logs.
get_test_logs(t, c) ==
    \/ require_auth("get_test_logs", t, c, EmptyTable)
    \/ /\ At(t, "get_test_logs", [c |-> c], "body")
       /\ LockFree
       /\ Returns(t, 200, [list |-> MostRecent(test_logs, LOG_LIMIT)])
       /\ UNCHANGED <<dbVars, clockVars, lockVars, mainVars>>

\* GET /api/stats on thread t: the gate, then get_all_api_keys,
\* get_all_models, get_setting and get_all_user_models, each a call of its
\* own; loc holds what the calls before returned.
get_stats(t, c) ==
    LET req == [c |-> c] IN
    \/ require_auth("get_stats", t, c, EmptyTable)
    \/ /\ At(t, "get_stats", req, "body")
       /\ LockFree
       /\ Goes(t, "get_all_api_keys", [ok |-> TRUE], "get_all_models",
               [total_keys |-> Cardinality(get_all_api_keys),
                active_keys |-> Cardinality({k \in get_all_api_keys : k.is_active})])
       /\ UNCHANGED <<dbVars, clockVars, lockVars, mainVars>>
    \/ /\ At(t, "get_stats", req, "get_all_models")
       /\ LockFree
       /\ Goes(t, "get_all_models", [ok |-> TRUE], "get_setting",
               threads[t].loc @@
               [total_models |-> Cardinality(get_all_models),
                enabled_models |-> Cardinality({m \in get_all_models : m.is_enabled})])
       /\ UNCHANGED <<dbVars, clockVars, lockVars, mainVars>>
    \/ /\ At(t, "get_stats", req, "get_setting")
       /\ LockFree
       /\ Goes(t, "get_setting", [ok |-> TRUE], "get_all_user_models",
               threads[t].loc @@ [default_model |-> get_setting("default_model", "groq")])
       /\ UNCHANGED <<dbVars, clockVars, lockVars, mainVars>>
    \/ /\ At(t, "get_stats", req, "get_all_user_models")
       /\ LockFree
       /\ Returns(t, 200,
                  threads[t].loc @@ [user_models_count |-> Cardinality(DOMAIN user_models)])
       /\ UNCHANGED <<dbVars, clockVars, lockVars, mainVars>>

\* GET /api/bot/config.
\* keys_dict of get_bot_config: name -> secret of the active rows.
keys_dict ==
    [n \in {k.name : k \in {x \in get_all_api_keys : x.is_active}} |->
        (CHOOSE k \in get_all_api_keys : k.name = n).key_value]

\* The settings get_bot_config reads, in order, with their defaults.
ConfigSettings ==
    << <<"default_model", "groq">>,
       <<"system_prompt", "You are a helpful assistant.">>,
       <<"max_memory_messages", "25">>,
       <<"memory_timeout_minutes", "30">> >>

\* The body of GET /api/bot/config computed from one state of the store.
BotConfigBody ==
    [keys |-> keys_dict,
     models |-> get_enabled_models,
     settings |->
        [default_model |-> get_setting("default_model", "groq"),
         system_prompt |-> get_setting("system_prompt", "You are a helpful assistant."),
         max_memory_messages |-> get_setting("max_memory_messages", "25"),
         memory_timeout_minutes |-> get_setting("memory_timeout_minutes", "30")],
     user_models |-> user_models]

\* Requests of one kind that run at a time.
MaxRequests == 1

\* The threads that serve requests, in two pools, so that a request of one
\* pool runs beside a request of the other.
Workers == 1..MaxRequests
OtherWorkers == (MaxRequests + 1)..(2 * MaxRequests)

\* The Database calls of one GET /api/bot/config, in the order the handler
\* makes them.  Each is one acquisition of Database.lock.
ConfigReads ==
    <<"keys", "models", "default_model", "system_prompt", "max_memory_messages",
      "memory_timeout_minutes", "user_models">>

\* The response under construction after the read numbered pc.
ConfigAfterRead(acc, pc) ==
    CASE pc = 1 -> [acc EXCEPT !.keys = keys_dict]
      [] pc = 2 -> [acc EXCEPT !.models = get_enabled_models]
      [] pc \in 3..6 ->
            [acc EXCEPT !.settings =
                [k \in DOMAIN @ \cup {ConfigSettings[pc - 2][1]} |->
                    IF k = ConfigSettings[pc - 2][1]
                    THEN get_setting(k, ConfigSettings[pc - 2][2])
                    ELSE @[k]]]
      [] pc = 7 -> [acc EXCEPT !.user_models = user_models]

\* The response before any read.
ConfigBlank ==
    [keys |-> EmptyTable, models |-> EmptyTable, settings |-> EmptyTable,
     user_models |-> EmptyTable]

\* GET /api/bot/config arrives on thread t: require_bot_secret, then the
\* handler, whose Database calls are the steps of get_bot_config_read.
\* seen collects the states of the store that Observe notes while the
\* request runs, as the body each would give, from the one it arrives in.
get_bot_config(t, secret) ==
    /\ t \notin DOMAIN threads
    /\ require_bot_secret("get_bot_config", secret,
          /\ threads' = Upsert(threads, t, [kind |-> "get_bot_config", pc |-> 1,
                                             acc |-> ConfigBlank, seen |-> {BotConfigBody}])
          /\ resp' = Http("get_bot_config.begin", [secret |-> secret, t |-> t], 0, EmptyTable)
          /\ UNCHANGED <<dbVars, clockVars, lockVars, mainVars>>)

\* The next Database call of request t; after the last one the handler
\* returns the response.
get_bot_config_read(t) ==
    /\ t \in DOMAIN threads
    /\ threads[t].kind = "get_bot_config"
    /\ threads[t].pc <= Len(ConfigReads)
    /\ lock = 0
    /\ LET acc == ConfigAfterRead(threads[t].acc, threads[t].pc)
           done == threads[t].pc = Len(ConfigReads)
       IN /\ threads' = IF done THEN DeleteRow(threads, t)
                          ELSE [threads EXCEPT ![t].acc = acc, ![t].pc = @ + 1]
          /\ resp' = IF done
                     THEN Http("get_bot_config",
                               [secret |-> BOT_SECRET, t |-> t, seen |-> threads[t].seen],
                               200, acc)
                     ELSE Http("get_bot_config.read", [secret |-> BOT_SECRET, t |-> t], 0,
                               EmptyTable)
    /\ UNCHANGED <<dbVars, now, ticks, issued, deleted, lock, db_lock, mainVars>>

\* The state of the store is noted for the requests that are running.
Observed ==
    \A t \in DOMAIN threads :
        (threads[t].kind = "get_bot_config" /\ threads[t].pc <= Len(ConfigReads))
            => BotConfigBody \in threads[t].seen

\* Noting the present state for request t: no step of the program.
Observe(t) ==
    /\ t \in DOMAIN threads
    /\ threads[t].kind = "get_bot_config"
    /\ threads[t].pc <= Len(ConfigReads)
    /\ BotConfigBody \notin threads[t].seen
    /\ threads' = [threads EXCEPT ![t].seen = @ \cup {BotConfigBody}]
    /\ UNCHANGED <<dbVars, now, ticks, issued, deleted, lock, db_lock, mainVars, resp>>

(***************************************************************************)
(* main.py: the FastAPI variant.                                           *)
(***************************************************************************)
\* The configured credentials and shared secret of main.py.
ADMIN_USER == "admin"
ADMIN_PASS == "admin123"
MAIN_BOT_SECRET == "bot_secret_key_123"

\* HTTP Basic credentials sent: <<username, password>>.
BasicInputs == {<<"admin", "admin123">>, <<"admin", "wrong">>, <<"root", "admin123">>}

\* verify_admin: both parts must match.
verify_admin(cred) == cred[1] = ADMIN_USER /\ cred[2] = ADMIN_PASS

\* The dependency verify_admin around the handler step f.
DependsAdmin(op, cred, req, f) ==
    IF ~verify_admin(cred)
    THEN /\ resp' = Http(op, [cred |-> cred] @@ req, 401, [detail |-> "Unauthorized"])
         /\ UNCHANGED <<dbVars, envVars, mainVars>>
    ELSE f

\* The dependency verify_bot around the handler step f.
verify_bot(op, secret, req, f) ==
    IF secret # MAIN_BOT_SECRET
    THEN /\ resp' = Http(op, [secret |-> secret] @@ req, 401, [detail |-> "Invalid bot secret"])
         /\ UNCHANGED <<dbVars, envVars, mainVars>>
    ELSE f

\* The cap add_log trims the logs table to.
LOGS_CAP == 500

\* The sequence s without its j-th element.
Pick(s, j) == SubSeq(s, 1, j - 1) \o SubSeq(s, j + 1, Len(s))

\* DELETE FROM logs WHERE id NOT IN (SELECT id FROM logs ORDER BY created_at
\* DESC LIMIT 500): the tables it can leave.  Rows with equal created_at
\* are ordered as sqlite pleases.
RECURSIVE TrimChoices(_)
TrimChoices(logs) ==
    IF Len(logs) <= LOGS_CAP THEN {logs}
    ELSE UNION {TrimChoices(Pick(logs, j)) :
                  j \in {k \in DOMAIN logs :
                            \A i \in DOMAIN logs :
                               logs[k].created_at <= logs[i].created_at}}

\* add_log: the tables it can leave.
LogChoices(logs, seq, action, details, ip, t) ==
    TrimChoices(Append(logs, [id |-> seq + 1, action |-> action, details |-> details,
                              ip |-> ip, created_at |-> t]))

\* The default settings of init_db (main.py).
main_defaults ==
  <<
    <<"default_model", "groq">>,
    <<"bot_prefix", ".">>,
    <<"rate_limit_ai", "5">>,
    <<"rate_limit_img", "15">>,
    <<"system_prompt", "You are a helpful AI assistant.">>,
    <<"max_memory_messages", "25">>,
    <<"memory_timeout_minutes", "30">>
  >>

\* INSERT OR IGNORE INTO settings for every default of init_db.
MainSeededSettings(sett) ==
    [k \in DOMAIN sett \cup {main_defaults[i][1] : i \in DOMAIN main_defaults} |->
        IF k \in DOMAIN sett THEN sett[k]
        ELSE (CHOOSE p \in Range(main_defaults) : p[1] = k)[2]]

\* init_db run again on the existing file (a restart).
InitDbRet == Ret("init_db", EmptyTable, EmptyTable)
init_db ==
    /\ m_settings' = MainSeededSettings(m_settings)
    /\ resp' = InitDbRet
    /\ UNCHANGED <<dbVars, envVars, m_api_keys, m_api_keys_seq, m_models, m_models_seq,
                   m_logs, m_logs_seq>>

\* The enabled keys of main.py: name -> secret.
MainEnabledKeys ==
    [n \in {m_api_keys[i].name : i \in {j \in DOMAIN m_api_keys : m_api_keys[j].enabled = 1}} |->
        (CHOOSE r \in {m_api_keys[i] : i \in DOMAIN m_api_keys} : r.name = n).key_value]

\* The enabled models of main.py: model_id -> descriptor.
MainEnabledModels ==
    [mid \in {m_models[i].model_id : i \in {j \in DOMAIN m_models : m_models[j].enabled = 1}} |->
        LET r == CHOOSE x \in {m_models[i] : i \in DOMAIN m_models} : x.model_id = mid
        IN [e |-> r.emoji, n |-> r.name, d |-> r.description, c |-> r.category,
            p |-> r.provider, m |-> r.model_name, endpoint |-> r.endpoint,
            config |-> IF r.config = "{}" THEN EmptyTable ELSE r.config]]

\* GET /api/bot/keys.
bot_get_keys(secret) ==
    verify_bot("bot_get_keys", secret, EmptyTable,
        /\ resp' = Http("bot_get_keys", [secret |-> secret], 200, MainEnabledKeys)
        /\ UNCHANGED <<dbVars, envVars, mainVars>>)

\* GET /api/bot/key/{name}.
bot_get_key(secret, name) ==
    verify_bot("bot_get_key", secret, [name |-> name],
        /\ resp' = IF name \in DOMAIN MainEnabledKeys
                   THEN Http("bot_get_key", [secret |-> secret, name |-> name], 200,
                             [key |-> MainEnabledKeys[name]])
                   ELSE Http("bot_get_key", [secret |-> secret, name |-> name], 404,
                             [detail |-> "Key not found"])
        /\ UNCHANGED <<dbVars, envVars, mainVars>>)

\* GET /api/bot/models.
bot_get_models(secret) ==
    verify_bot("bot_get_models", secret, EmptyTable,
        /\ resp' = Http("bot_get_models", [secret |-> secret], 200, MainEnabledModels)
        /\ UNCHANGED <<dbVars, envVars, mainVars>>)

\* GET /api/bot/settings: every row of settings.
bot_get_settings(secret) ==
    verify_bot("bot_get_settings", secret, EmptyTable,
        /\ resp' = Http("bot_get_settings", [secret |-> secret], 200, m_settings)
        /\ UNCHANGED <<dbVars, envVars, mainVars>>)

\* GET /api/bot/setting/{key}.
bot_get_setting(secret, key) ==
    verify_bot("bot_get_setting", secret, [key |-> key],
        /\ resp' = IF key \in DOMAIN m_settings
                   THEN Http("bot_get_setting", [secret |-> secret, key |-> key], 200,
                             [value |-> m_settings[key]])
                   ELSE Http("bot_get_setting", [secret |-> secret, key |-> key], 404,
                             [detail |-> "Setting not found"])
        /\ UNCHANGED <<dbVars, envVars, mainVars>>)

\* GET /api/bot/config.
bot_get_full_config(secret) ==
    verify_bot("bot_get_full_config", secret, EmptyTable,
        /\ resp' = Http("bot_get_full_config", [secret |-> secret], 200,
                        [keys |-> MainEnabledKeys, models |-> MainEnabledModels,
                         settings |-> m_settings, timestamp |-> now])
        /\ UNCHANGED <<dbVars, envVars, mainVars>>)

\* POST /api/bot/ping.
bot_ping_upto(secret, cap) ==
    verify_bot("bot_ping", secret, EmptyTable,
        /\ m_logs_seq < cap
        /\ m_logs' \in LogChoices(m_logs, m_logs_seq, "bot_ping", "", RemoteAddr, now)
        /\ m_logs_seq' = m_logs_seq + 1
        /\ resp' = Http("bot_ping", [secret |-> secret], 200, [status |-> "ok"])
        /\ UNCHANGED <<dbVars, envVars, m_api_keys, m_api_keys_seq, m_models,
                       m_models_seq, m_settings>>)

\* POST /api/bot/ping, at most MaxLogs times.
bot_ping(secret) == bot_ping_upto(secret, MaxLogs)

\* GET /api/admin/keys: id, name and enabled of every row.
admin_list_keys(cred) ==
    DependsAdmin("admin_list_keys", cred, EmptyTable,
        /\ resp' = Http("admin_list_keys", [cred |-> cred], 200,
              [list |-> {[id |-> r.id, name |-> r.name, enabled |-> r.enabled] :
                            r \in {m_api_keys[i] : i \in DOMAIN m_api_keys}}])
        /\ UNCHANGED <<dbVars, envVars, mainVars>>)

\* str.lower() after str.strip() on the provider names sent to main.py.
MainKeyNameInputs == {"groq", "GROQ", ""}
lower_name(s) == IF s = "GROQ" THEN "groq" ELSE s

\* POST /api/admin/keys.
admin_add_key(cred, name_in, key_in) ==
    LET name == lower_name(strip_name(name_in))
        key_value == strip(key_in)
        req == [cred |-> cred, name |-> name_in, key |-> key_in]
    IN DependsAdmin("admin_add_key", cred, [name |-> name_in, key |-> key_in],
        IF name = "" \/ key_value = <<>>
        THEN /\ resp' = Http("admin_add_key", req, 400, [detail |-> "Name and key required"])
             /\ UNCHANGED <<dbVars, envVars, mainVars>>
        ELSE IF name \in KeyNames(m_api_keys)
        THEN /\ resp' = Http("admin_add_key", req, 400, [detail |-> "Key name already exists"])
             /\ UNCHANGED <<dbVars, envVars, mainVars>>
        ELSE /\ m_api_keys_seq < MaxKeys
             /\ Len(m_logs) < MaxLogs
             /\ m_api_keys_seq' = m_api_keys_seq + 1
             /\ m_api_keys' = Upsert(m_api_keys, m_api_keys_seq + 1,
                    [id |-> m_api_keys_seq + 1, name |-> name, key_value |-> key_value,
                     enabled |-> 1])
             /\ m_logs' \in LogChoices(m_logs, m_logs_seq, "add_key", "Added key: " \o name,
                                       RemoteAddr, now)
             /\ m_logs_seq' = m_logs_seq + 1
             /\ resp' = Http("admin_add_key", req, 200, [success |-> TRUE])
             /\ UNCHANGED <<dbVars, envVars, m_models, m_models_seq, m_settings>>)

\* Rows the models table of main.py holds at most.
MaxModels == 2

\* JSON bodies of POST /api/admin/models.
MainModelOk == [model_id |-> "m1", name |-> "Test", provider |-> "groq", model_name |-> "llama-3"]
MainModelInputs ==
    { MainModelOk,
      [model_id |-> "m1", name |-> "Other", provider |-> "groq", model_name |-> "llama-4"],
      [model_id |-> "m1", name |-> "", provider |-> "groq", model_name |-> "llama-3"] }

\* The required fields of admin_add_model, in the order they are checked.
main_required == <<"model_id", "name", "provider", "model_name">>

\* The row INSERT INTO models creates from a body with the required
\* fields only; the emoji default is the text the source file holds.
NewMainModelRow(id, data) ==
    [id |-> id, model_id |-> data.model_id, name |-> data.name,
     emoji |-> "U+00F0U+0178U+00A4U+2013", description |-> "", provider |-> data.provider,
     endpoint |-> "", model_name |-> data.model_name, category |-> "custom",
     enabled |-> 1, priority |-> 100, config |-> "{}"]

\* POST /api/admin/models.
admin_add_model(cred, data) ==
    LET req == [cred |-> cred, data |-> data]
        bad == {i \in DOMAIN main_required : Missing(data, main_required[i])}
        first == CHOOSE i \in bad : \A j \in bad : i <= j
    IN DependsAdmin("admin_add_model", cred, [data |-> data],
        IF bad # {}
        THEN /\ resp' = Http("admin_add_model", req, 400,
                             [detail |-> "Field '" \o main_required[first] \o "' required"])
             /\ UNCHANGED <<dbVars, envVars, mainVars>>
        ELSE IF \E i \in DOMAIN m_models : m_models[i].model_id = data.model_id
        THEN /\ resp' = Http("admin_add_model", req, 400, [detail |-> "Model ID already exists"])
             /\ UNCHANGED <<dbVars, envVars, mainVars>>
        ELSE /\ m_models_seq < MaxModels
             /\ Len(m_logs) < MaxLogs
             /\ m_models_seq' = m_models_seq + 1
             /\ m_models' = Upsert(m_models, m_models_seq + 1,
                                   NewMainModelRow(m_models_seq + 1, data))
             /\ m_logs' \in LogChoices(m_logs, m_logs_seq, "add_model",
                                       "Added model: " \o data.model_id, RemoteAddr, now)
             /\ m_logs_seq' = m_logs_seq + 1
             /\ resp' = Http("admin_add_model", req, 200, [success |-> TRUE])
             /\ UNCHANGED <<dbVars, envVars, m_api_keys, m_api_keys_seq, m_settings>>)

\* PUT /api/admin/keys/{key_id}: key is the body's "key" (absent: ""),
\* enabled its "enabled" (None, or a JSON bool).
admin_update_key(cred, key_id, key_in, enabled) ==
    LET key_value == strip(key_in)
        req == [cred |-> cred, key_id |-> key_id, key |-> key_in, enabled |-> enabled]
    IN DependsAdmin("admin_update_key", cred,
                    [key_id |-> key_id, key |-> key_in, enabled |-> enabled],
        /\ Len(m_logs) < MaxLogs
        /\ m_api_keys' =
              [i \in DOMAIN m_api_keys |->
                  IF i # key_id THEN m_api_keys[i]
                  ELSE [m_api_keys[i] EXCEPT
                          !.key_value = IF key_value # <<>> THEN key_value ELSE @,
                          !.enabled = IF enabled.has THEN (IF enabled.v THEN 1 ELSE 0) ELSE @]]
        /\ m_logs' \in LogChoices(m_logs, m_logs_seq, "update_key",
                                  "Updated key ID: " \o ToString(key_id), RemoteAddr, now)
        /\ m_logs_seq' = m_logs_seq + 1
        /\ resp' = Http("admin_update_key", req, 200, [success |-> TRUE])
        /\ UNCHANGED <<dbVars, envVars, m_api_keys_seq, m_models, m_models_seq, m_settings>>)

\* DELETE /api/admin/keys/{key_id}.
admin_delete_key(cred, key_id) ==
    DependsAdmin("admin_delete_key", cred, [key_id |-> key_id],
        /\ Len(m_logs) < MaxLogs
        /\ m_api_keys' = DeleteRow(m_api_keys, key_id)
        /\ m_logs' \in LogChoices(m_logs, m_logs_seq, "delete_key",
                                  "Deleted key ID: " \o ToString(key_id), RemoteAddr, now)
        /\ m_logs_seq' = m_logs_seq + 1
        /\ resp' = Http("admin_delete_key", [cred |-> cred, key_id |-> key_id], 200,
                        [success |-> TRUE])
        /\ UNCHANGED <<dbVars, envVars, m_api_keys_seq, m_models, m_models_seq, m_settings>>)

\* The columns admin_update_model copies from the body.
main_fields == {"name", "emoji", "description", "provider", "endpoint", "model_name",
                "category", "priority", "enabled", "config"}

\* JSON bodies of PUT /api/admin/models/{model_id}.
MainModelUpdateOff == [enabled |-> FALSE]
MainModelUpdateOn == [enabled |-> TRUE, name |-> "Renamed"]
MainModelUpdateInputs == {MainModelUpdateOff, MainModelUpdateOn, [bogus |-> 1], EmptyTable}

\* UPDATE models SET ... WHERE id = model_id; a JSON bool is stored as 0 or 1.
UpdatedMainModels(models, model_id, data) ==
    [i \in DOMAIN models |->
        IF i # model_id THEN models[i]
        ELSE [f \in DOMAIN models[i] |->
                IF f \in DOMAIN data \cap main_fields
                THEN (IF f = "enabled" THEN (IF data[f] THEN 1 ELSE 0) ELSE data[f])
                ELSE models[i][f]]]

\* PUT /api/admin/models/{model_id}.
admin_update_model(cred, model_id, data) ==
    LET req == [cred |-> cred, model_id |-> model_id, data |-> data]
    IN DependsAdmin("admin_update_model", cred, [model_id |-> model_id, data |-> data],
        IF DOMAIN data \cap main_fields = {}
        THEN /\ resp' = Http("admin_update_model", req, 400, [detail |-> "No fields to update"])
             /\ UNCHANGED <<dbVars, envVars, mainVars>>
        ELSE /\ Len(m_logs) < MaxLogs
             /\ m_models' = UpdatedMainModels(m_models, model_id, data)
             /\ m_logs' \in LogChoices(m_logs, m_logs_seq, "update_model",
                                       "Updated model ID: " \o ToString(model_id), RemoteAddr, now)
             /\ m_logs_seq' = m_logs_seq + 1
             /\ resp' = Http("admin_update_model", req, 200, [success |-> TRUE])
             /\ UNCHANGED <<dbVars, envVars, m_api_keys, m_api_keys_seq, m_models_seq,
                            m_settings>>)

\* DELETE /api/admin/models/{model_id}.
admin_delete_model(cred, model_id) ==
    DependsAdmin("admin_delete_model", cred, [model_id |-> model_id],
        /\ Len(m_logs) < MaxLogs
        /\ m_models' = DeleteRow(m_models, model_id)
        /\ m_logs' \in LogChoices(m_logs, m_logs_seq, "delete_model",
                                  "Deleted model ID: " \o ToString(model_id), RemoteAddr, now)
        /\ m_logs_seq' = m_logs_seq + 1
        /\ resp' = Http("admin_delete_model", [cred |-> cred, model_id |-> model_id], 200,
                        [success |-> TRUE])
        /\ UNCHANGED <<dbVars, envVars, m_api_keys, m_api_keys_seq, m_models_seq, m_settings>>)

\* Keys and values sent to PUT /api/admin/settings/{key}.
MainSettingKeyInputs == {"default_model", PasswordHashKey}
MainSettingValueInputs == {"groq_8b", "evil"}

\* PUT /api/admin/settings/{key}.
admin_update_setting(cred, key, value) ==
    DependsAdmin("admin_update_setting", cred, [key |-> key, value |-> value],
        /\ Len(m_logs) < MaxLogs
        /\ m_settings' = Upsert(m_settings, key, value)
        /\ m_logs' \in LogChoices(m_logs, m_logs_seq, "update_setting", "Updated: " \o key,
                                  RemoteAddr, now)
        /\ m_logs_seq' = m_logs_seq + 1
        /\ resp' = Http("admin_update_setting", [cred |-> cred, key |-> key, value |-> value],
                        200, [success |-> TRUE])
        /\ UNCHANGED <<dbVars, envVars, m_api_keys, m_api_keys_seq, m_models, m_models_seq>>)

\* GET /api/admin/settings.
admin_list_settings(cred) ==
    DependsAdmin("admin_list_settings", cred, EmptyTable,
        /\ resp' = Http("admin_list_settings", [cred |-> cred], 200, m_settings)
        /\ UNCHANGED <<dbVars, envVars, mainVars>>)

(***************************************************************************)
(* The stores of a first start.  database.py: the tables as the CREATE     *)
(* TABLE IF NOT EXISTS script of Database._init_db leaves them on a new    *)
(* file, every one empty; seeding is a step of its own.  main.py: the      *)
(* tables after init_db, which inserts the default settings.               *)
(***************************************************************************)
StartRet == Ret("start", EmptyTable, EmptyTable)
Init ==
    /\ api_keys = EmptyTable
    /\ api_keys_seq = 0
    /\ ai_models = EmptyTable
    /\ user_models = EmptyTable
    /\ settings = EmptyTable
    /\ sessions = EmptyTable
    /\ test_logs = <<>>
    /\ activity_logs = <<>>
    /\ now = 0
    /\ ticks = 0
    /\ issued = EmptyTable
    /\ deleted = {}
    /\ m_api_keys = EmptyTable
    /\ m_api_keys_seq = 0
    /\ m_models = EmptyTable
    /\ m_models_seq = 0
    /\ m_settings = MainSeededSettings(EmptyTable)
    /\ m_logs = <<>>
    /\ m_logs_seq = 0
    /\ lock = 0
    /\ db_lock = 0
    /\ threads = EmptyTable
    /\ resp = StartRet

\* app.py and main.py are two programs, each with a store of its own: a
\* run of one leaves the store of the other as Init has it.
AppUnused ==
    dbVars = <<EmptyTable, 0, EmptyTable, EmptyTable, EmptyTable, EmptyTable, <<>>, <<>>>>
MainUnused ==
    mainVars = <<EmptyTable, 0, EmptyTable, 0, MainSeededSettings(EmptyTable), <<>>, 0>>

(***************************************************************************)
(* The locks, statement by statement: Database.add_api_key on a thread,    *)
(* and init_db and admin_add_key of main.py.                               *)
(***************************************************************************)
\* Database.add_api_key(name, key_value, "custom") on thread t: enter the
\* lock, INSERT, commit (or IntegrityError), close in `finally`, leave the
\* lock.
add_api_key_step(t, name, key_value) ==
    /\ IF t \notin DOMAIN threads
       THEN /\ threads' = Upsert(threads, t,
                  [kind |-> "add_api_key", name |-> name, status |-> "NULL",
                   message |-> "NULL", pc |-> "acquire", matched |-> FALSE])
            /\ UNCHANGED <<dbVars, lock, resp>>
       ELSE LET th == threads[t] IN
            /\ th.kind = "add_api_key"
            /\ th.name = name
            /\ CASE th.pc = "acquire" ->
                     /\ LockFree
                     /\ lock' = t
                     /\ threads' = [threads EXCEPT ![t].pc = "insert"]
                     /\ UNCHANGED <<dbVars, resp>>
                [] th.pc = "insert" ->
                     /\ threads' = [threads EXCEPT
                            ![t].pc = IF name \in KeyNames(api_keys) THEN "close" ELSE "commit",
                            ![t].matched = name \in KeyNames(api_keys)]
                     /\ UNCHANGED <<dbVars, lock, resp>>
                [] th.pc = "commit" ->
                     /\ api_keys_seq' = api_keys_seq + 1
                     /\ api_keys' = Upsert(api_keys, api_keys_seq + 1,
                            NewKeyRow(api_keys_seq + 1, name, key_value, "custom"))
                     /\ threads' = [threads EXCEPT ![t].pc = "close"]
                     /\ UNCHANGED <<ai_models, user_models, settings, sessions, test_logs,
                                    activity_logs, lock, resp>>
                [] th.pc = "close" ->
                     /\ lock' = IF lock = t THEN 0 ELSE lock
                     /\ threads' = [threads EXCEPT ![t].pc = "done"]
                     /\ resp' = Ret("db.add_api_key", [t |-> t, name |-> name],
                                    [ok |-> ~th.matched])
                     /\ UNCHANGED dbVars
                [] OTHER -> FALSE
    /\ UNCHANGED <<now, ticks, issued, deleted, db_lock, mainVars>>

\* init_db of main.py at start-up (lifespan), before any request is
\* served: executescript, the INSERT OR IGNORE of the defaults, commit.  It
\* runs on get_db() alone and never names db_lock.
init_db_step(t) ==
    /\ IF t \notin DOMAIN threads
       THEN /\ \A u \in DOMAIN threads :
                  threads[u].kind = "admin_add_key" => threads[u].pc \in {"done", "raised"}
            /\ threads' = Upsert(threads, t,
                  [kind |-> "init_db", name |-> "", status |-> "NULL",
                   message |-> "NULL", pc |-> "executescript", matched |-> FALSE])
            /\ UNCHANGED <<m_settings, resp>>
       ELSE LET th == threads[t] IN
            /\ th.kind = "init_db"
            /\ CASE th.pc = "executescript" ->
                     /\ threads' = [threads EXCEPT ![t].pc = "defaults"]
                     /\ UNCHANGED <<m_settings, resp>>
                [] th.pc = "defaults" ->
                     /\ threads' = [threads EXCEPT ![t].pc = "commit"]
                     /\ UNCHANGED <<m_settings, resp>>
                [] th.pc = "commit" ->
                     /\ m_settings' = MainSeededSettings(m_settings)
                     /\ threads' = [threads EXCEPT ![t].pc = "done"]
                     /\ resp' = InitDbRet
                [] OTHER -> FALSE
    /\ UNCHANGED <<dbVars, now, ticks, issued, deleted, lock, db_lock, m_api_keys,
                   m_api_keys_seq, m_models, m_models_seq, m_logs, m_logs_seq>>

\* POST /api/admin/keys on thread t, once init_db has run: the gate and the
\* validation, then `with db_lock` around the INSERT (IntegrityError is
\* raised from inside the block, which releases the lock), then add_log
\* with a `with db_lock` of its own.
admin_add_key_step(t, cred, name_in, key_in) ==
    LET name == lower_name(strip_name(name_in))
        key_value == strip(key_in)
        req == [t |-> t, cred |-> cred, name |-> name_in, key |-> key_in]
    IN
    /\ IF t \notin DOMAIN threads
       THEN /\ \A u \in DOMAIN threads :
                  threads[u].kind = "init_db" => threads[u].pc = "done"
            /\ DependsAdmin("admin_add_key", cred, [t |-> t, name |-> name_in, key |-> key_in],
                  IF name = "" \/ key_value = <<>>
                  THEN /\ resp' = Http("admin_add_key", req, 400,
                                       [detail |-> "Name and key required"])
                       /\ UNCHANGED <<dbVars, envVars, mainVars>>
                  ELSE /\ threads' = Upsert(threads, t,
                             [kind |-> "admin_add_key", name |-> name, status |-> "NULL",
                              message |-> "NULL", pc |-> "acquire", matched |-> FALSE])
                       /\ UNCHANGED <<dbVars, now, ticks, issued, deleted, lock, db_lock,
                                      mainVars, resp>>)
       ELSE LET th == threads[t] IN
            /\ th.kind = "admin_add_key"
            /\ th.name = name
            /\ CASE th.pc \in {"acquire", "log_acquire"} ->
                     /\ db_lock = 0
                     /\ db_lock' = t
                     /\ threads' = [threads EXCEPT
                            ![t].pc = IF th.pc = "acquire" THEN "insert" ELSE "log_insert"]
                     /\ UNCHANGED <<mainVars, resp>>
                [] th.pc = "insert" /\ name \in KeyNames(m_api_keys) ->
                     /\ db_lock' = 0
                     /\ threads' = [threads EXCEPT ![t].pc = "raised"]
                     /\ resp' = Http("admin_add_key", req, 400,
                                     [detail |-> "Key name already exists"])
                     /\ UNCHANGED mainVars
                [] th.pc = "insert" /\ name \notin KeyNames(m_api_keys) ->
                     /\ m_api_keys_seq' = m_api_keys_seq + 1
                     /\ m_api_keys' = Upsert(m_api_keys, m_api_keys_seq + 1,
                            [id |-> m_api_keys_seq + 1, name |-> name,
                             key_value |-> key_value, enabled |-> 1])
                     /\ threads' = [threads EXCEPT ![t].pc = "release"]
                     /\ UNCHANGED <<db_lock, m_models, m_models_seq, m_settings, m_logs,
                                    m_logs_seq, resp>>
                [] th.pc = "release" ->
                     /\ db_lock' = 0
                     /\ threads' = [threads EXCEPT ![t].pc = "log_acquire"]
                     /\ UNCHANGED <<mainVars, resp>>
                [] th.pc = "log_insert" ->
                     /\ m_logs' \in LogChoices(m_logs, m_logs_seq, "add_key",
                                               "Added key: " \o name, RemoteAddr, now)
                     /\ m_logs_seq' = m_logs_seq + 1
                     /\ threads' = [threads EXCEPT ![t].pc = "log_release"]
                     /\ UNCHANGED <<db_lock, m_api_keys, m_api_keys_seq, m_models,
                                    m_models_seq, m_settings, resp>>
                [] th.pc = "log_release" ->
                     /\ db_lock' = 0
                     /\ threads' = [threads EXCEPT ![t].pc = "done"]
                     /\ resp' = Http("admin_add_key", req, 200, [success |-> TRUE])
                     /\ UNCHANGED mainVars
                [] OTHER -> FALSE
            /\ UNCHANGED <<dbVars, now, ticks, issued, deleted, lock>>

\* Database(path) on thread t, on a file an earlier run may have filled:
\* __init__ makes a new threading.Lock and calls _init_db, which enters the
\* lock, runs the schema script, and calls _seed_default_models from
\* inside the block; that method enters the same lock first.
Database_init_step(t) ==
    /\ IF t \notin DOMAIN threads
       THEN /\ threads' = Upsert(threads, t,
                  [kind |-> "Database", name |-> "", status |-> "NULL",
                   message |-> "NULL", pc |-> "init_acquire", matched |-> FALSE])
            /\ lock' = 0
            /\ UNCHANGED <<dbVars, resp>>
       ELSE LET th == threads[t] IN
            /\ th.kind = "Database"
            /\ CASE th.pc \in {"init_acquire", "seed_acquire"} ->
                     /\ LockFree
                     /\ lock' = t
                     /\ threads' = [threads EXCEPT
                            ![t].pc = IF th.pc = "init_acquire" THEN "executescript" ELSE "seed"]
                     /\ UNCHANGED <<dbVars, resp>>
                [] th.pc = "executescript" ->
                     /\ threads' = [threads EXCEPT ![t].pc = "seed_acquire"]
                     /\ UNCHANGED <<dbVars, lock, resp>>
                [] th.pc = "seed" ->
                     /\ ai_models' = IF Cardinality(DOMAIN ai_models) = 0
                                     THEN SeededModels(ai_models) ELSE ai_models
                     /\ settings' = IF Cardinality(DOMAIN ai_models) = 0
                                    THEN SeededSettings(settings) ELSE settings
                     /\ lock' = 0
                     /\ threads' = [threads EXCEPT ![t].pc = "done"]
                     /\ resp' = Ret("Database", EmptyTable, [ok |-> TRUE])
                     /\ UNCHANGED <<api_keys, api_keys_seq, user_models, sessions, test_logs,
                                    activity_logs>>
                [] OTHER -> FALSE
    /\ UNCHANGED <<now, ticks, issued, deleted, db_lock, mainVars>>

\* The providers admin_test_key knows an endpoint for.
test_endpoints == {"groq", "openrouter", "cerebras", "together", "mistral", "cohere",
                   "huggingface"}

\* POST /api/admin/test-key on thread t: the gate, the outbound GET for a
\* known provider, and the answer.  The handler never touches the store.
admin_test_key_step(t, cred, provider, outcome) ==
    LET req == [t |-> t, cred |-> cred, provider |-> provider] IN
    /\ IF t \notin DOMAIN threads
       THEN DependsAdmin("admin_test_key", cred, [t |-> t, provider |-> provider],
               IF provider \notin test_endpoints
               THEN /\ resp' = Http("admin_test_key", req, 200,
                          [success |-> TRUE,
                           message |-> "Cannot test this provider, assuming valid"])
                    /\ UNCHANGED <<dbVars, envVars, mainVars>>
               ELSE /\ threads' = Upsert(threads, t,
                          [kind |-> "admin_test_key", name |-> provider, status |-> "NULL",
                           message |-> "NULL", pc |-> "call", matched |-> FALSE])
                    /\ UNCHANGED <<dbVars, now, ticks, issued, deleted, lock, db_lock,
                                   mainVars, resp>>)
       ELSE /\ threads[t].kind = "admin_test_key"
            /\ threads[t].name = provider
            /\ threads[t].pc = "call"
            /\ threads' = [threads EXCEPT ![t].pc = "done"]
            /\ resp' = Http("admin_test_key", req, 200,
                  [success |-> outcome = "200",
                   message |-> IF outcome = "200" THEN "API key is valid"
                               ELSE IF outcome = "401" THEN "Invalid API key"
                               ELSE IF outcome = "exception" THEN "exception"
                               ELSE "HTTP " \o outcome])
            /\ UNCHANGED <<dbVars, now, ticks, issued, deleted, lock, db_lock, mainVars>>

(***************************************************************************)
(* SpecStore: any sequence of Database calls on the model catalog.         *)
(***************************************************************************)

NextStore ==
    \/ Database_seed_default_models
    \/ \E id \in ModelIdInputs : Database_add_model(id)
    \/ \E id \in ModelIdInputs, kw \in ModelUpdateInputs : Database_update_model(id, kw)
    \/ \E id \in ModelIdInputs : Database_delete_model(id)
    \/ \E id \in ModelIdInputs : Database_set_default_model(id)

SpecStore == Init /\ [][NextStore]_vars
(***************************************************************************)
(* SpecAuth: the clock, login, logout and the session check.               *)
(***************************************************************************)
NextAuth ==
    \/ \E d \in ClockSteps : Tick(d)
    \/ \E p \in PasswordInputs, tok \in Tokens : login(1, p, tok)
    \/ \E c \in Carriers : logout(c)
    \/ \E c \in Carriers : check_auth(c)

SpecAuth == Init /\ [][NextAuth]_vars

(***************************************************************************)
(* SpecAdmin: an operator session working on the model catalog and the     *)
(* settings, with start-up seeding.                                        *)
(***************************************************************************)

NextAdmin ==
    \/ Database_seed_default_models
    \/ login(1, "admin123", "tok1")
    \/ \E c \in CookieCarriers, id \in ModelIdInputs : set_default_model(1, c, id)
    \/ \E c \in CookieCarriers, data \in SettingsInputs : update_settings(1, c, data)
    \/ \E c \in CookieCarriers, id \in ModelIdInputs, data \in ModelPutInputs :
           update_model(1, c, id, data)
    \/ \E c \in CookieCarriers, id \in ModelIdInputs : delete_model(1, c, id)

SpecAdmin == Init /\ [][NextAdmin]_vars

(***************************************************************************)
(* SpecGate: every endpoint behind require_auth, called with every carrier *)
(* while sessions are created, deleted and expire; the clock moves once a  *)
(* session is stored.                                                      *)
(***************************************************************************)
\* The operations require_auth guards.
GuardedOps ==
    {"change_password", "get_keys", "add_key", "update_key", "delete_key", "test_key",
     "get_models", "add_model", "update_model", "delete_model", "toggle_model",
     "set_default_model", "reset_models", "get_user_models", "set_user_model",
     "delete_user_model", "get_settings", "update_settings", "get_activity_logs",
     "get_test_logs", "get_stats"}

\* The carriers tried at the gate: no token, an unknown one, and one
\* token by cookie, by bearer header, and by header under an unknown cookie.
GateCarriers ==
    {<<"", "">>, <<"bogus", "">>, <<"tok1", "">>, <<"", "tok1">>, <<"bogus", "tok1">>}

\* The bodies sent through the gate.  The key and the model that updates,
\* deletes and tests address, id 0, "nosuch" and "m0", are never stored.
GateKeyUpdate == <<None, Some(FALSE)>>
GateModelBody == [id |-> "m1", name |-> "M One", provider |-> "groq", model_id |-> "llama-3"]
GateModelUpdate == [is_default |-> 1]
GateUserModelBody == [model_id |-> "groq"]
GateSettingsBody == [rate_limit_ai |-> JInt(7)]

NextGate ==
    \/ sessions # EmptyTable /\ Tick(SESSION_TTL)
    \/ login(1, "admin123", "tok1")
    \/ login(1, "wrong", "tok1")
    \/ logout(<<"tok1", "">>)
    \/ check_auth(<<"tok1", "">>)
    \/ \E c \in GateCarriers : change_password(1, c, "admin123", "hunter22")
    \/ \E c \in GateCarriers : get_keys(1, c)
    \/ \E c \in GateCarriers : add_key(1, c, "groq", <<"k">>)
    \/ \E c \in GateCarriers : update_key(1, c, 0, GateKeyUpdate)
    \/ \E c \in GateCarriers : delete_key(1, c, 0)
    \/ \E c \in GateCarriers : test_key(1, c, "nosuch")
    \/ \E c \in GateCarriers : get_models(1, c)
    \/ \E c \in GateCarriers : add_model(1, c, GateModelBody)
    \/ \E c \in GateCarriers : update_model(1, c, "m0", GateModelUpdate)
    \/ \E c \in GateCarriers : delete_model(1, c, "m0")
    \/ \E c \in GateCarriers : toggle_model(1, c, "m0", FALSE)
    \/ \E c \in GateCarriers : set_default_model(1, c, "m1")
    \/ \E c \in GateCarriers : reset_models(1, c)
    \/ \E c \in GateCarriers : get_user_models(1, c)
    \/ \E c \in GateCarriers : set_user_model(1, c, "u1", GateUserModelBody)
    \/ \E c \in GateCarriers : delete_user_model(1, c, "u1")
    \/ \E c \in GateCarriers : get_settings(1, c)
    \/ \E c \in GateCarriers : update_settings(1, c, GateSettingsBody)
    \/ \E c \in GateCarriers : get_activity_logs(1, c)
    \/ \E c \in GateCarriers : get_test_logs(1, c)
    \/ \E c \in GateCarriers : get_stats(1, c)

SpecGate == Init /\ [][NextGate]_vars

(***************************************************************************)
(* SpecBot: the bot-facing endpoints of both variants, called with every   *)
(* secret while an operator adds keys.                                     *)
(***************************************************************************)
\* The bot-facing operations of app.py and of main.py.
BotOpsApp == {"get_bot_config"}
BotOpsMain == {"bot_get_keys", "bot_get_key", "bot_get_models", "bot_get_settings",
               "bot_get_setting", "bot_get_full_config", "bot_ping"}

\* The secret value an operator stores in SpecBot.
LongSecret == <<"s","k","-","t","e","s","t","1","2","3","4","5","6","7","8","9">>

NextBot ==
    \/ login(1, "admin123", "tok1")
    \/ \E c \in CookieCarriers : add_key(1, c, "groq", LongSecret)
    \/ \E cred \in BasicInputs : admin_add_key(cred, "GROQ", LongSecret)
    \/ \E secret \in SecretInputs : get_bot_config(2, secret)
    \/ get_bot_config_read(2)
    \/ \E secret \in SecretInputs : bot_get_keys(secret)
    \/ \E secret \in SecretInputs, name \in {"groq", "nosuch"} : bot_get_key(secret, name)
    \/ \E secret \in SecretInputs : bot_get_models(secret)
    \/ \E secret \in SecretInputs : bot_get_settings(secret)
    \/ \E secret \in SecretInputs, key \in {"default_model", "nosuch"} : bot_get_setting(secret, key)
    \/ \E secret \in SecretInputs : bot_get_full_config(secret)
    \/ \E secret \in SecretInputs : bot_ping(secret)

SpecBot == Init /\ [][NextBot]_vars

(***************************************************************************)
(* SpecSettings: the settings endpoints of both variants.                  *)
(***************************************************************************)

NextSettings ==
    \/ Database_seed_default_models
    \/ Database_get_all_settings
    \/ init_db
    \/ login(1, "admin123", "tok1")
    \/ login(1, "hunter22", "tok1")
    \/ \E t \in {1, 2}, c \in CookieCarriers : change_password(t, c, "admin123", "hunter22")
    \/ \E c \in CookieCarriers : get_settings(2, c)
    \/ \E c \in CookieCarriers : get_activity_logs(2, c)
    \/ \E c \in CookieCarriers, data \in SettingsInputs : update_settings(1, c, data)
    \/ \E cred \in BasicInputs, key \in MainSettingKeyInputs, value \in MainSettingValueInputs :
           admin_update_setting(cred, key, value)
    \/ \E cred \in BasicInputs : admin_list_settings(cred)
    \/ \E secret \in SecretInputs : bot_get_settings(secret)

SpecSettings == Init /\ [][NextSettings]_vars

(***************************************************************************)
(* SpecKeys: the API-key endpoints of both variants.                       *)
(***************************************************************************)

NextKeys ==
    \/ login(1, "admin123", "tok1")
    \/ \E c \in CookieCarriers, name \in KeyNameInputs, kv \in KeyValueInputs :
           add_key(1, c, name, kv)
    \/ \E c \in CookieCarriers, id \in KeyIdInputs, u \in KeyUpdateInputs :
           update_key(1, c, id, u)
    \/ \E c \in CookieCarriers, id \in KeyIdInputs : delete_key(1, c, id)
    \/ \E c \in CookieCarriers : get_keys(2, c)
    \/ \E cred \in BasicInputs, name \in MainKeyNameInputs, kv \in KeyValueInputs :
           admin_add_key(cred, name, kv)
    \/ \E cred \in BasicInputs : admin_list_keys(cred)

SpecKeys == Init /\ [][NextKeys]_vars

(***************************************************************************)
(* SpecMask: keys with secret values of every length class are stored and  *)
(* listed by GET /api/keys.                                                *)
(***************************************************************************)
\* Secret values: shorter than, exactly, and longer than 12 characters;
\* the mask itself; and values of 13 and 15 characters made of or around
\* dots.
MaskInputs ==
    { <<"a","b","c">>,
      <<"*","*","*","*">>,
      <<"a","b","c","d","e","f","g","h","i","j","k","l">>,
      <<"a","b","c","d","e","f","g","h","i","j","k","l","m">>,
      <<"s","k","-","t","e","s","t","1","2","3","4","5","6","7","8","9">>,
      <<"a","b","c","d","e","f","g","h",".",".",".","w","x","y","z">>,
      <<".",".",".",".",".",".",".",".",".",".",".",".",".">> }

NextMask ==
    \/ login(1, "admin123", "tok1")
    \/ \E name \in {"groq", "mykey"}, kv \in MaskInputs : add_key(1, <<"tok1", "">>, name, kv)
    \/ \E id \in KeyIdInputs, kv \in MaskInputs : update_key(1, <<"tok1", "">>, id, <<Some(kv), None>>)
    \/ \E id \in KeyIdInputs : delete_key(1, <<"tok1", "">>, id)
    \/ get_keys(2, <<"tok1", "">>)

SpecMask == Init /\ [][NextMask]_vars

(***************************************************************************)
(* SpecDup: inserts of keys and models, repeated under the same unique     *)
(* key, in both variants.                                                  *)
(***************************************************************************)
NextDup ==
    \/ MainUnused /\ login(1, "admin123", "tok1")
    \/ MainUnused /\ \E t \in {1, 2}, c \in CookieCarriers, name \in {"groq", " groq "},
          kv \in {LongSecret, <<"a","b","c">>} :
           add_key(t, c, name, kv)
    \/ MainUnused /\ \E t \in {1, 2}, c \in CookieCarriers, data \in AddModelInputs :
           add_model(t, c, data)
    \/ MainUnused /\ \E id \in {"groq", "m1"} : Database_add_model(id)
    \/ MainUnused /\ Database_add_api_key("groq", <<"a","b","c">>, "custom")
    \/ AppUnused /\ \E cred \in BasicInputs, name \in MainKeyNameInputs,
          kv \in {LongSecret, <<"a","b","c">>} :
           admin_add_key(cred, name, kv)
    \/ AppUnused /\ \E cred \in BasicInputs, data \in MainModelInputs :
           admin_add_model(cred, data)

SpecDup == Init /\ [][NextDup]_vars

(***************************************************************************)
(* SpecConfig: keys and models are added, switched off and on, and         *)
(* deleted while the bot reads its configuration, in both variants.        *)
(***************************************************************************)
\* The operator of SpecConfig: the cookie login set, and main.py's admin.
OpCookie == <<"tok1", "">>
OpCred == <<"admin", "admin123">>

NextConfig ==
    \/ MainUnused /\ login(1, "admin123", "tok1")
    \/ MainUnused /\ add_key(1, OpCookie, "groq", LongSecret)
    \/ MainUnused /\ \E b \in BOOLEAN : update_key(1, OpCookie, 1, <<None, Some(b)>>)
    \/ MainUnused /\ delete_key(1, OpCookie, 1)
    \/ MainUnused /\ \E id \in {"groq", "m1"} : Database_add_model(id)
    \/ MainUnused /\ \E b \in BOOLEAN : toggle_model(1, OpCookie, "m1", b)
    \/ MainUnused /\ get_bot_config(2, BOT_SECRET)
    \/ MainUnused /\ get_bot_config_read(2)
    \/ AppUnused /\ admin_add_key(OpCred, "groq", LongSecret)
    \/ AppUnused /\ admin_update_key(OpCred, 1, <<>>, Some(FALSE))
    \/ AppUnused /\ admin_delete_key(OpCred, 1)
    \/ AppUnused /\ admin_add_model(OpCred, MainModelOk)
    \/ AppUnused /\ admin_update_model(OpCred, 1, MainModelUpdateOff)
    \/ AppUnused /\ bot_get_full_config(MAIN_BOT_SECRET)

SpecConfig == Init /\ [][NextConfig]_vars

(***************************************************************************)
(* SpecSnapshot: GET /api/bot/config runs its Database calls one by one    *)
(* while other requests change keys, models and settings between them.     *)
(***************************************************************************)
NextSnapshot ==
    \/ \E t \in OtherWorkers : get_bot_config(t, BOT_SECRET)
    \/ \E t \in OtherWorkers : Observed /\ get_bot_config_read(t)
    \/ \E t \in OtherWorkers : Observe(t)
    \/ \E t \in Workers : Observed /\ login(t, "admin123", "tok1")
    \/ \E t \in Workers : Observed /\ add_key(t, OpCookie, "groq", LongSecret)
    \/ Observed /\ Database_add_model("m1")
    \/ Observed /\ Database_set_default_model("m1")
    \/ \E t \in Workers : Observed /\ set_user_model(t, OpCookie, "u1", GateUserModelBody)
    \/ admin_add_key(OpCred, "groq", LongSecret)
    \/ bot_get_full_config(MAIN_BOT_SECRET)

SpecSnapshot == Init /\ [][NextSnapshot]_vars

(***************************************************************************)
(* SpecCalls: update_api_test_result is called on several threads at once, *)
(* each call for its own provider name, while keys are added.              *)
(***************************************************************************)
NextCalls ==
    \/ \E t \in 1..MaxCalls : Database_add_api_key(CallName(t), LongSecret, "custom")
    \/ \E t \in 1..MaxCalls, status \in {"success", "failed"} :
           update_api_test_result_begin(t, status)
    \/ \E t \in 1..MaxCalls : update_api_test_result_step(t)

SpecCalls ==
    /\ Init
    /\ [][NextCalls]_vars
    /\ \A t \in 1..MaxCalls : WF_vars(update_api_test_result_step(t))

(***************************************************************************)
(* SpecTestKey: key tests on their own threads while the operator adds,    *)
(* updates and deletes keys.                                               *)
(***************************************************************************)
NextTestKey ==
    \/ MainUnused /\ login(2, "admin123", "tok1")
    \/ MainUnused /\ add_key(2, OpCookie, "groq", LongSecret)
    \/ MainUnused /\ Database_add_api_key(CallName(1), LongSecret, "custom")
    \/ MainUnused /\ \E u \in {<<None, Some(FALSE)>>, <<None, Some(TRUE)>>, <<Some(<<>>), None>>} :
           update_key(2, OpCookie, 1, u)
    \/ MainUnused /\ delete_key(2, OpCookie, 1)
    \/ MainUnused /\ \E name \in {"groq", CallName(1), "other"} : test_key(1, OpCookie, name)
    \/ MainUnused /\ \E outcome \in CallOutcomes : test_key_call(1, outcome)
    \/ MainUnused /\ update_api_test_result_step(1)
    \/ AppUnused /\ \E cred \in {OpCred, <<"admin", "wrong">>}, provider \in {"groq", "other"},
          outcome \in {"200", "401", "exception"} :
           admin_test_key_step(3, cred, provider, outcome)

SpecTestKey == Init /\ [][NextTestKey]_vars

(***************************************************************************)
(* SpecKeyUpdate: stored keys of both variants are updated with every      *)
(* combination of present and absent fields, under ids with and without a  *)
(* row.                                                                    *)
(***************************************************************************)
NextKeyUpdate ==
    \/ MainUnused /\ login(1, "admin123", "tok1")
    \/ MainUnused /\ \E t \in 1..MaxCalls :
           Database_add_api_key(CallName(t), LongSecret, "custom")
    \/ MainUnused /\ \E id \in KeyIdInputs,
          u \in {<<None, Some(FALSE)>>, <<Some(<<"n","e","w">>), None>>, <<None, None>>} :
           update_key(1, OpCookie, id, u)
    \/ AppUnused /\ \E name \in {"groq", "mykey"} : admin_add_key(OpCred, name, LongSecret)
    \/ AppUnused /\ \E id \in KeyIdInputs, k \in {<<>>, <<"n","e","w">>},
          en \in {None, Some(FALSE)} :
           admin_update_key(OpCred, id, k, en)

SpecKeyUpdate == Init /\ [][NextKeyUpdate]_vars

(***************************************************************************)
(* SpecDelete: keys, models and user overrides are stored and deleted,     *)
(* under ids with and without a row, once and again.                       *)
(***************************************************************************)
NextDelete ==
    \/ login(1, "admin123", "tok1")
    \/ Database_seed_default_models
    \/ \E t \in 1..MaxCalls : Database_add_api_key(CallName(t), LongSecret, "custom")
    \/ \E u \in {"u1", "u2"} : set_user_model(1, OpCookie, u, GateUserModelBody)
    \/ \E id \in KeyIdInputs : delete_key(1, OpCookie, id)
    \/ \E id \in {"groq", "m1"} : delete_model(1, OpCookie, id)
    \/ \E id \in {"groq", "m1"} : Database_delete_model(id)
    \/ \E u \in {"u1", "u2"} : delete_user_model(1, OpCookie, u)

SpecDelete == Init /\ [][NextDelete]_vars

(***************************************************************************)
(* SpecLock: store operations of both variants run on threads: main.py     *)
(* starts up and serves admin_add_key requests; Database.add_api_key and   *)
(* update_api_test_result are called concurrently, and requests of app.py  *)
(* without a token arrive while a call is inside Database.lock.            *)
(***************************************************************************)
\* The thread of main.py's start-up, and the threads of its requests and
\* of the Database calls.
MainThreads == 1..MaxCalls
DbThreads == (MaxCalls + 1)..(2 * MaxCalls)
StartupThread == 2 * MaxCalls + 1

\* The thread of app.py that serves a request sent without a token while
\* a Database call is inside the lock.
RequestThread == 2 * MaxCalls + 2

NextLock ==
    \/ init_db_step(StartupThread)
    \/ \E t \in MainThreads, cred \in {OpCred, <<"admin", "wrong">>},
          k \in {LongSecret, <<" ">>} : admin_add_key_step(t, cred, "groq", k)
    \/ \E t \in DbThreads : add_api_key_step(t, CallName(MaxCalls + 1), LongSecret)
    \/ \E t \in DbThreads, status \in {"success", "failed"} :
           update_api_test_result_begin(t, status)
    \/ \E t \in DbThreads : update_api_test_result_step(t)
    \/ lock # 0 /\ \E c \in {<<"", "">>, <<"", "tok1">>} : logout(c)
    \/ lock # 0 /\ check_auth(<<"", "">>)
    \/ lock # 0 /\ get_keys(RequestThread, <<"", "">>)
    \/ lock # 0 /\ delete_key(RequestThread, <<"", "">>, 1)

SpecLock == Init /\ [][NextLock]_vars

(***************************************************************************)
(* SpecConstruct: a Database is constructed on a file that earlier runs    *)
(* have left empty or filled with keys and models.                         *)
(***************************************************************************)
NextConstruct ==
    \/ threads = EmptyTable /\ Database_seed_default_models
    \/ \E id \in ModelIdInputs : threads = EmptyTable /\ Database_add_model(id)
    \/ \E id \in ModelIdInputs : threads = EmptyTable /\ Database_delete_model(id)
    \/ \E id \in ModelIdInputs : threads = EmptyTable /\ Database_set_default_model(id)
    \/ \E k \in 1..MaxCalls :
           threads = EmptyTable /\ Database_add_api_key(CallName(k), LongSecret, "custom")
    \/ Database_init_step(1)

SpecConstruct == Init /\ [][NextConstruct]_vars /\ WF_vars(Database_init_step(1))

(***************************************************************************)
(* SpecReinit: initialization is run again on stores that hold keys,       *)
(* models, overrides, sessions and changed settings.                       *)
(***************************************************************************)
NextReinit ==
    \/ Database_seed_default_models
    \/ init_db
    \/ login(1, "admin123", "tok1")
    \/ Database_add_model("m1")
    \/ \E id \in {"groq", "m1"} : Database_delete_model(id)
    \/ Database_set_default_model("m1")
    \/ Database_add_api_key(CallName(1), LongSecret, "custom")
    \/ set_user_model(1, OpCookie, "u1", GateUserModelBody)
    \/ admin_add_key(OpCred, "groq", LongSecret)
    \/ \E key \in MainSettingKeyInputs : admin_update_setting(OpCred, key, "evil")

SpecReinit == Init /\ [][NextReinit]_vars

(***************************************************************************)
(* The activity log of main.py at its cap: MaxLogs pings in the first      *)
(* second, the rest later, LOGS_CAP + MaxLogs pings in all.                *)
(***************************************************************************)
NextRing ==
    \/ \E secret \in {MAIN_BOT_SECRET, "wrong"} :
           /\ now > 0 \/ Len(m_logs) < MaxLogs
           /\ bot_ping_upto(secret, LOGS_CAP + MaxLogs)
    \/ Len(m_logs) \in {MaxLogs, LOGS_CAP} /\ Tick(1)

SpecRing == Init /\ [][NextRing]_vars

(***************************************************************************)
(* The claims.                                                             *)
(***************************************************************************)
\* C1: in every state reachable by Database calls on the catalog (seeding,
\* add_model, update_model, delete_model, set_default_model) at most one
\* model row has its default flag set.
C1_AtMostOneDefault == Cardinality(DefaultModels(ai_models)) <= 1

\* C2: after set_default_model(X) for an existing model id X, exactly one
\* model is default, it is X, and the default_model setting is X.
C2_SetDefaultExact ==
    (resp.op = "db.set_default_model" /\ resp.req.model_id \in DOMAIN ai_models)
    => /\ DefaultModels(ai_models) = {resp.req.model_id}
       /\ "default_model" \in DOMAIN settings
       /\ settings["default_model"] = resp.req.model_id

\* set_default_model has just moved the default off the seeded one, in a
\* catalog of several rows.
C2_Witness ==
    /\ resp.op = "db.set_default_model"
    /\ resp.req.model_id \in DOMAIN ai_models
    /\ resp.req.model_id # "groq"
    /\ "groq" \in DOMAIN ai_models
    /\ Cardinality(DOMAIN ai_models) > 2

\* C3: whenever some model is flagged default, the default_model setting
\* holds that model's id.
C3_DefaultMatchesSetting ==
    \A id \in DefaultModels(ai_models) :
        "default_model" \in DOMAIN settings /\ settings["default_model"] = id

\* Request t takes a step: it moves on or it ends.
Stepped(t) == t \in DOMAIN threads /\ (t \notin DOMAIN threads' \/ threads'[t] # threads[t])

\* Request t, of handler op, takes the step it is at pc for.
Calls(t, op, pc) == Stepped(t) /\ threads[t].kind = op /\ threads[t].pc = pc

\* Request t ends in this step, answered with the status.
Answers(t, status) ==
    /\ t \notin DOMAIN threads'
    /\ resp'.op = threads[t].kind
    /\ resp'.req = threads[t].req
    /\ resp'.status = status

\* The history of a token: created, not deleted since, expiry in the future.
SessionLive(t) ==
    /\ t # ""
    /\ t \in DOMAIN issued
    /\ t \notin deleted
    /\ issued[t] + SESSION_TTL > now

\* C4: validate_session(t) is true exactly for a non-empty token that
\* create_session returned, that delete_session has not deleted and whose
\* expiry is in the future (so the purge of create_session has removed no
\* unexpired session); it is true right after create_session.
C4_ValidateExactly ==
    /\ \A t \in TokenInputs : validate_session(t) <=> SessionLive(t)
    /\ resp.op = "check_auth"
          => resp.body.authenticated = SessionLive(AuthToken(resp.req.c))
    /\ resp.op = "login.create_session" => validate_session(resp.body.token)

\* The step in which require_auth has let a request through to its handler.
GatePassed == {op \o ".validate_session" : op \in GuardedOps}

\* C5: a guarded admin endpoint called with a token that does not validate
\* (missing, unknown, deleted or expired) answers 401 and changes nothing
\* in the store, and its handler does not run: no request is in flight
\* after it, a request of a guarded handler begins only when the gate has
\* let it through, and only a request that began so is answered by its
\* handler.
C5_UnauthorizedRejected ==
    [][LET passed == resp' # resp /\ resp'.op \in GatePassed
           refused == resp' # resp /\ resp'.op \in GuardedOps /\ resp'.status = 401
       IN /\ ((passed \/ refused) /\ ~validate_session(AuthToken(resp'.req.c)))
               => (refused /\ UNCHANGED <<dbVars, mainVars, threads>>)
          /\ \A t \in DOMAIN threads' \ DOMAIN threads :
                 threads'[t].kind \in GuardedOps
                     => (passed /\ resp'.req.t = t /\ validate_session(AuthToken(threads'[t].req.c)))
          /\ (resp' # resp /\ resp'.op \in GuardedOps /\ ~refused)
               => \E t \in DOMAIN threads \ DOMAIN threads' : threads[t].kind = resp'.op]_vars

\* A guarded endpoint that writes has just refused a token whose expired
\* row is still stored.
C5_Witness ==
    /\ resp.op \in {"update_settings", "set_user_model", "change_password"}
    /\ resp.status = 401
    /\ AuthToken(resp.req.c) \in DOMAIN sessions
    /\ sessions[AuthToken(resp.req.c)] <= now

\* C6: a bot-facing request whose secret header differs from the configured
\* secret is answered Forbidden (403) and its body carries no store data,
\* whatever was accepted before.
C6_WrongSecretForbidden ==
    (/\ resp.op \in BotOpsApp \cup BotOpsMain
     /\ resp.req.secret # (IF resp.op \in BotOpsApp THEN BOT_SECRET ELSE MAIN_BOT_SECRET))
    => (resp.status = 403 /\ DOMAIN resp.body \subseteq {"error", "detail"})

\* C7: after a logout request the token that authenticated the operator,
\* carried by cookie or by bearer header, no longer validates.
C7_LogoutInvalidates ==
    resp.op = "logout" => ~validate_session(AuthToken(resp.req.c))

\* C8: the bulk settings read, Database.get_all_settings and the endpoints
\* that answer with every setting, never contains the password-hash key.
C8_BulkReadHidesHash ==
    /\ resp.op = "db.get_all_settings" => PasswordHashKey \notin DOMAIN resp.body
    /\ (resp.op \in {"get_settings", "bot_get_settings"} /\ resp.status = 200)
          => PasswordHashKey \notin DOMAIN resp.body

\* The password-hash entry of a settings table: its value, or None.
HashEntry(tbl) == IF PasswordHashKey \in DOMAIN tbl THEN Some(tbl[PasswordHashKey]) ELSE None

\* The keys a PUT /api/settings request has written so far.
DoneKeys(th) == IF "done" \in DOMAIN th.loc THEN th.loc.done ELSE {}

\* C9: a generic settings update leaves the password-hash entry as it was
\* and upserts every other key it was sent: each of its calls writes one
\* of them and none touches the hash, and it answers when all are written.
C9_HashWriteIgnored ==
    [][/\ \A t \in DOMAIN threads :
             Calls(t, "update_settings", "body")
             => /\ HashEntry(settings') = HashEntry(settings)
                /\ t \in DOMAIN threads'
                      => \E k \in DOMAIN threads[t].req.data \ {PasswordHashKey} :
                            /\ DoneKeys(threads'[t]) = DoneKeys(threads[t]) \cup {k}
                            /\ k \in DOMAIN settings'
                            /\ settings'[k] = PyStr(threads[t].req.data[k])
                /\ t \notin DOMAIN threads'
                      => /\ Answers(t, 200)
                         /\ DoneKeys(threads[t]) = DOMAIN threads[t].req.data \ {PasswordHashKey}
       /\ (resp'.op = "admin_update_setting" /\ resp'.status = 200)
            => /\ HashEntry(m_settings') = HashEntry(m_settings)
               /\ resp'.req.key # PasswordHashKey
                      => /\ resp'.req.key \in DOMAIN m_settings'
                         /\ m_settings'[resp'.req.key] = resp'.req.value]_vars

\* The fields of a listed key that hold a sequence of characters.
SecretFields == {"key_value", "key_masked"}

\* C10: in the admin listings of API keys no field of a listed key equals
\* the secret value stored for that key.
C10_ListingMasksSecrets ==
    /\ (resp.op = "get_keys" /\ resp.status = 200)
          => \A row \in resp.body.list : \A f \in DOMAIN row \cap SecretFields :
                 row[f] # api_keys[row.id].key_value
    /\ (resp.op = "admin_list_keys" /\ resp.status = 200)
          => \A row \in resp.body.list : \A f \in DOMAIN row \cap SecretFields :
                 row[f] # m_api_keys[row.id].key_value

\* v occurs in s as a run of consecutive characters.
Contains(s, v) == \E i \in 1..(Len(s) - Len(v) + 1) : SubSeq(s, i, i + Len(v) - 1) = v

\* C11: the masked form of a listed secret v is its first 8 characters,
\* "..." and its last 4 characters when len(v) > 12, the fixed mask "****"
\* otherwise, and it never contains v.
C11_MaskedForm ==
    (resp.op = "get_keys" /\ resp.status = 200)
    => \A row \in resp.body.list :
          LET v == row.key_value
          IN v # <<>> =>
               /\ "key_masked" \in DOMAIN row
               /\ Len(v) > 12 =>
                      row.key_masked = SubSeq(v, 1, 8) \o <<".", ".", ".">>
                                          \o SubSeq(v, Len(v) - 3, Len(v))
               /\ Len(v) <= 12 => row.key_masked = <<"*", "*", "*", "*">>
               /\ ~Contains(row.key_masked, v)

\* C12: an accepted insert request whose unique key is already stored (an
\* API key name, a model id) when its insert runs is answered with a
\* failure, 400 over HTTP, and changes no table: every row stays as it was
\* and no log entry is written, the request ending there.
C12_DuplicateInsertFails ==
    [][/\ \A t \in DOMAIN threads :
             /\ (/\ Calls(t, "add_key", "body")
                 /\ \E i \in DOMAIN api_keys :
                        api_keys[i].name = strip_name(threads[t].req.name))
                  => (Answers(t, 400) /\ UNCHANGED <<dbVars, mainVars>>)
             /\ (/\ Calls(t, "add_model", "body")
                 /\ "id" \in DOMAIN threads[t].req.data
                 /\ threads[t].req.data.id \in DOMAIN ai_models)
                  => (Answers(t, 400) /\ UNCHANGED <<dbVars, mainVars>>)
       /\ (resp'.op = "db.add_model" /\ resp'.req.id \in DOMAIN ai_models)
            => (resp'.body.ok = FALSE /\ UNCHANGED <<dbVars, mainVars>>)
       /\ (/\ resp'.op = "admin_add_key"
           /\ verify_admin(resp'.req.cred)
           /\ \E i \in DOMAIN m_api_keys :
                  m_api_keys[i].name = lower_name(strip_name(resp'.req.name)))
            => (resp'.status = 400 /\ UNCHANGED <<dbVars, mainVars>>)
       /\ (/\ resp'.op = "admin_add_model"
           /\ verify_admin(resp'.req.cred)
           /\ "model_id" \in DOMAIN resp'.req.data
           /\ \E i \in DOMAIN m_models : m_models[i].model_id = resp'.req.data.model_id)
            => (resp'.status = 400 /\ UNCHANGED <<dbVars, mainVars>>)]_vars

\* A key insert has just been refused for a name that, once stripped, is
\* the name of a stored key holding another secret.
C12_Witness ==
    /\ resp.op = "add_key"
    /\ resp.status = 400
    /\ resp.body.error = "API key with this name already exists"
    /\ resp.req.name = " groq "
    /\ \E i \in DOMAIN api_keys :
           api_keys[i].name = "groq" /\ api_keys[i].key_value # resp.req.key_value

\* The names of the keys stored with their active flag set.
ActiveKeyNames == {api_keys[i].name : i \in {j \in DOMAIN api_keys : api_keys[j].is_active # 0}}

\* C13: the keys map of a bot config response has an entry for a name
\* exactly when an API key row of that name is stored with its active flag
\* true, and its models map holds exactly the enabled models, as the store
\* is when the request reads them; so a key that was deactivated or
\* deleted is not in the response of a request made afterwards.
C13_ConfigExposesActive ==
    /\ [][\A t \in DOMAIN threads :
             (/\ threads[t].kind = "get_bot_config"
              /\ t \in DOMAIN threads' => threads'[t].pc # threads[t].pc)
             => LET acc == IF t \in DOMAIN threads' THEN threads'[t].acc ELSE resp'.body
                    pc == threads[t].pc
                IN /\ pc = 1 => DOMAIN acc.keys = ActiveKeyNames
                   /\ pc = 2 => DOMAIN acc.models =
                                   {id \in DOMAIN ai_models : ai_models[id].is_enabled # 0}
                   /\ pc # 1 => acc.keys = threads[t].acc.keys
                   /\ pc # 2 => acc.models = threads[t].acc.models
                   /\ t \notin DOMAIN threads'
                         => resp'.op = "get_bot_config" /\ resp'.status = 200]_vars
    /\ []((resp.op = "bot_get_full_config" /\ resp.status = 200)
          => /\ DOMAIN resp.body.keys =
                   {m_api_keys[i].name : i \in {j \in DOMAIN m_api_keys : m_api_keys[j].enabled # 0}}
             /\ DOMAIN resp.body.models =
                   {m_models[i].model_id : i \in {j \in DOMAIN m_models : m_models[j].enabled # 0}})

\* The bot has just read a configuration that leaves out a stored key that
\* was deactivated and a stored model that was disabled, and holds an
\* enabled model.
C13_Witness ==
    /\ resp.op = "get_bot_config"
    /\ resp.status = 200
    /\ \E i \in DOMAIN api_keys :
           api_keys[i].is_active = 0 /\ api_keys[i].name \notin DOMAIN resp.body.keys
    /\ \E id \in DOMAIN ai_models :
           ai_models[id].is_enabled = 0 /\ id \notin DOMAIN resp.body.models
    /\ resp.body.models # EmptyTable

\* C14: the keys, models, settings and user_models of one bot config
\* response are those of one state of the store that existed between the
\* start and the end of the request, whatever other requests did meanwhile.
C14_ConsolidatedSnapshot ==
    /\ (resp.op = "get_bot_config" /\ resp.status = 200) => resp.body \in resp.req.seen
    /\ (resp.op = "bot_get_full_config" /\ resp.status = 200)
          => /\ resp.body.keys = MainEnabledKeys
             /\ resp.body.models = MainEnabledModels
             /\ resp.body.settings = m_settings

\* The calls that have committed, and those that have returned.
Committed == {t \in DOMAIN threads : threads[t].pc \in {"release", "done"}}
Returned == {t \in DOMAIN threads : threads[t].pc = "done"}

\* Every call made so far has left one test_logs row of its own and its
\* status in the key of its name, if the key was stored when it committed;
\* no call has failed.
CallsApplied ==
    /\ Len(test_logs) = Cardinality(Committed)
    /\ \A t \in Committed :
          /\ Cardinality({i \in DOMAIN test_logs : test_logs[i].api_name = threads[t].name}) = 1
          /\ \E i \in DOMAIN test_logs : test_logs[i] = TestLogRow(threads[t])
          /\ threads[t].matched
                => \E i \in DOMAIN api_keys :
                      /\ api_keys[i].name = threads[t].name
                      /\ api_keys[i].test_status = threads[t].status
    /\ \A t \in DOMAIN threads : threads[t].pc # "raised"

\* C15: of N concurrent calls of update_api_test_result for different
\* provider names every one completes, each adds exactly one test_logs
\* row, and each key holds the status of the call made for its name.
C15_ConcurrentTestResults ==
    /\ [](CallsApplied)
    /\ \A t \in 1..MaxCalls : (t \in DOMAIN threads) ~> (t \in Returned)

\* All the calls have returned, their keys stored before they committed,
\* with different results.
C15_Witness ==
    /\ Returned = 1..MaxCalls
    /\ Len(test_logs) = MaxCalls
    /\ \A t \in Returned : threads[t].matched
    /\ \E t, u \in Returned : threads[t].status # threads[u].status

\* C16: a recorded test result applies both writes together: a step that
\* appends a test_logs row for a name also sets the status of the key of
\* that name to the row's status, and a step that sets a key's status
\* appends the row.
C16_TestResultTogether ==
    [][ /\ test_logs' # test_logs
           => \E i \in DOMAIN api_keys' :
                 /\ api_keys'[i].name = test_logs'[Len(test_logs')].api_name
                 /\ api_keys'[i].test_status = test_logs'[Len(test_logs')].status
        /\ (\E i \in DOMAIN api_keys \cap DOMAIN api_keys' :
               api_keys'[i].test_status # api_keys[i].test_status)
           => Len(test_logs') = Len(test_logs) + 1
      ]_vars

\* C17: a login attempt, accepted or refused, appends one activity log
\* entry that records the caller's address.
C17_LoginAttemptLogged ==
    [][ (resp' # resp /\ resp'.op = "login")
           => /\ Len(activity_logs') = Len(activity_logs) + 1
              /\ activity_logs'[Len(activity_logs')].ip = RemoteAddr
      ]_vars

\* The admin endpoints of app.py that change the store.
MutatingOps ==
    {"add_key", "update_key", "delete_key", "add_model", "update_model", "delete_model",
     "toggle_model", "set_default_model", "reset_models", "set_user_model",
     "delete_user_model", "update_settings"}

\* C18: every accepted request to a mutating admin endpoint appends
\* exactly one activity log entry.
C18_MutationLogged ==
    [][ (resp' # resp /\ resp'.op \in MutatingOps /\ resp'.status = 200)
           => Len(activity_logs') = Len(activity_logs) + 1
      ]_vars

\* C19: a reset-models request that passes the gate succeeds, leaves the
\* catalog equal to the built-in default catalog, and leaves keys, user
\* overrides and sessions as they were.
C19_ResetToDefaults ==
    [][ (resp' # resp /\ resp'.op = "reset_models" /\ resp'.status # 401)
           => /\ resp'.status = 200
              /\ ai_models' = SeededModels(EmptyTable)
              /\ UNCHANGED <<api_keys, user_models, sessions>>
      ]_vars

\* C20: after set_default_model(X) for an id X that no model has, no model
\* is flagged default, the default_model setting is X, and the call
\* returned success.
C20_UnknownDefaultClears ==
    (resp.op = "db.set_default_model" /\ resp.req.model_id \notin DOMAIN ai_models)
    => /\ DefaultModels(ai_models) = {}
       /\ "default_model" \in DOMAIN settings
       /\ settings["default_model"] = resp.req.model_id
       /\ resp.body.ok

\* set_default_model has just been called with an unknown id on the seeded
\* catalog, whose default was groq.
C20_Witness ==
    /\ resp.op = "db.set_default_model"
    /\ resp.req.model_id \notin DOMAIN ai_models
    /\ "groq" \in DOMAIN ai_models
    /\ Cardinality(DOMAIN ai_models) > 2
    /\ settings["default_model"] # "groq"

\* C21: an add-model request that passes the gate with a required field
\* missing or empty is answered 400 and leaves the model table and the
\* activity log of its variant unchanged.
C21_AddModelValidated ==
    [][ /\ (/\ resp' # resp
            /\ resp'.op = "add_model"
            /\ resp'.status # 401
            /\ \E i \in DOMAIN required :
                  \/ required[i] \notin DOMAIN resp'.req.data
                  \/ resp'.req.data[required[i]] = "")
           => (resp'.status = 400 /\ UNCHANGED <<ai_models, activity_logs>>)
        /\ (/\ resp' # resp
            /\ resp'.op = "admin_add_model"
            /\ resp'.status # 401
            /\ \E i \in DOMAIN main_required :
                  \/ main_required[i] \notin DOMAIN resp'.req.data
                  \/ resp'.req.data[main_required[i]] = "")
           => (resp'.status = 400 /\ UNCHANGED <<m_models, m_logs>>)
      ]_vars

\* An add-model request with an empty name has just been refused, on a
\* catalog that does not hold its id.
C21_Witness ==
    /\ resp.op = "add_model"
    /\ resp.status = 400
    /\ resp.body.error = "name is required"
    /\ resp.req.data.id \notin DOMAIN ai_models

\* C22: a key update that passes the gate succeeds, changes no row but the
\* addressed one, keeps in that row every field absent from the call and
\* every column the call cannot name, and changes nothing when no row has
\* the id.
C22_PartialKeyUpdate ==
    [][ /\ (resp' # resp /\ resp'.op = "update_key" /\ resp'.status # 401)
           => /\ resp'.status = 200
              /\ DOMAIN api_keys' = DOMAIN api_keys
              /\ \A i \in DOMAIN api_keys :
                    IF i # resp'.req.key_id THEN api_keys'[i] = api_keys[i]
                    ELSE /\ api_keys'[i].key_value =
                               IF resp'.req.u[1].has THEN resp'.req.u[1].v
                               ELSE api_keys[i].key_value
                         /\ (~resp'.req.u[2].has) => api_keys'[i].is_active = api_keys[i].is_active
                         /\ [api_keys'[i] EXCEPT !.key_value = <<>>, !.is_active = 0]
                               = [api_keys[i] EXCEPT !.key_value = <<>>, !.is_active = 0]
        /\ (resp' # resp /\ resp'.op = "admin_update_key" /\ resp'.status # 401)
           => /\ resp'.status = 200
              /\ DOMAIN m_api_keys' = DOMAIN m_api_keys
              /\ \A i \in DOMAIN m_api_keys :
                    IF i # resp'.req.key_id THEN m_api_keys'[i] = m_api_keys[i]
                    ELSE /\ resp'.req.key = <<>> => m_api_keys'[i].key_value = m_api_keys[i].key_value
                         /\ (~resp'.req.enabled.has) => m_api_keys'[i].enabled = m_api_keys[i].enabled
                         /\ [m_api_keys'[i] EXCEPT !.key_value = <<>>, !.enabled = 0]
                               = [m_api_keys[i] EXCEPT !.key_value = <<>>, !.enabled = 0]
      ]_vars

\* A key of two has just been switched off by an update that names no
\* value: its value is still the stored one.
C22_Witness ==
    /\ resp.op = "update_key"
    /\ resp.status = 200
    /\ resp.req.u = <<None, Some(FALSE)>>
    /\ Cardinality(DOMAIN api_keys) = 2
    /\ resp.req.key_id \in DOMAIN api_keys
    /\ api_keys[resp.req.key_id].is_active = 0
    /\ api_keys[resp.req.key_id].key_value = LongSecret

\* What a delete step does to the table it addresses: the row of key k is
\* gone afterwards and every other row is as it was.
Deleted(old, new, k) ==
    /\ DOMAIN new = DOMAIN old \ {k}
    /\ \A x \in DOMAIN new : new[x] = old[x]

\* C23: a delete of a key id, a model id or a user override returns
\* success; when no row has the id it leaves every table unchanged, and
\* otherwise it removes that row only, so that a second delete of the same
\* id finds no row and is such a no-op.
C23_DeleteIsNoOp ==
    [][ /\ (resp' # resp /\ resp'.op = "delete_key" /\ resp'.status # 401)
           => /\ resp'.status = 200 /\ resp'.body.success
              /\ Deleted(api_keys, api_keys', resp'.req.key_id)
              /\ UNCHANGED <<api_keys_seq, ai_models, user_models, settings, sessions,
                             test_logs, activity_logs>>
        /\ (resp' # resp /\ resp'.op = "delete_model" /\ resp'.status # 401)
           => /\ resp'.status = 200 /\ resp'.body.success
              /\ Deleted(ai_models, ai_models', resp'.req.model_id)
              /\ UNCHANGED <<api_keys, api_keys_seq, user_models, settings, sessions,
                             test_logs, activity_logs>>
        /\ (resp' # resp /\ resp'.op = "db.delete_model")
           => /\ resp'.body.ok
              /\ Deleted(ai_models, ai_models', resp'.req.model_id)
              /\ UNCHANGED <<api_keys, api_keys_seq, user_models, settings, sessions,
                             test_logs, activity_logs>>
        /\ (resp' # resp /\ resp'.op = "delete_user_model" /\ resp'.status # 401)
           => /\ resp'.status = 200 /\ resp'.body.success
              /\ Deleted(user_models, user_models', resp'.req.user_id)
              /\ UNCHANGED <<api_keys, api_keys_seq, ai_models, settings, sessions,
                             test_logs, activity_logs>>
      ]_vars

\* A delete of a key id that no row ever had (ids are assigned up to
\* api_keys_seq) has answered success, while a key, models and an override
\* are stored.
C23_Witness ==
    /\ resp.op = "delete_key"
    /\ resp.status = 200
    /\ resp.body.success
    /\ resp.req.key_id > api_keys_seq
    /\ DOMAIN api_keys # {}
    /\ DOMAIN ai_models # {}
    /\ DOMAIN user_models # {}

\* The positions at which a call is executing store statements.
StatementPcs ==
    {"update", "insert", "commit", "close", "log_insert", "executescript", "defaults"}

\* The lock of the store thread t works on.
StoreLock(t) ==
    IF threads[t].kind \in {"init_db", "admin_add_key"} THEN db_lock ELSE lock

\* C24: a call that is executing store statements holds the lock of its
\* store, so at most one call per store is executing statements, and a
\* call that has returned or raised does not hold it.
C24_MutualExclusion ==
    \A t \in DOMAIN threads :
        /\ threads[t].pc \in StatementPcs => StoreLock(t) = t
        /\ threads[t].pc \in {"done", "raised"} => StoreLock(t) # t

\* C25: the construction of a Database, once begun, ends, with the lock
\* free for the first call that follows.
C25_ConstructionTerminates ==
    (1 \in DOMAIN threads)
        ~> (1 \in DOMAIN threads /\ threads[1].pc = "done" /\ lock = 0)

\* Every row of the old table is in the new one, as it was.
RowsKept(old, new) ==
    \A k \in DOMAIN old : k \in DOMAIN new /\ new[k] = old[k]

\* C26: initialization run again keeps every stored row: the seeding of
\* database.py adds models only to an empty model table and settings only
\* under absent keys, init_db of main.py adds settings only under absent
\* keys, and no key, model, override, setting or session is changed or
\* removed.
C26_ReinitKeepsRows ==
    [][ /\ (resp' # resp /\ resp'.op = "db._seed_default_models")
           => /\ RowsKept(ai_models, ai_models')
              /\ DOMAIN ai_models # {} => ai_models' = ai_models
              /\ RowsKept(settings, settings')
              /\ UNCHANGED <<api_keys, user_models, sessions, test_logs, activity_logs>>
        /\ (resp' # resp /\ resp'.op = "init_db")
           => /\ RowsKept(m_settings, m_settings')
              /\ UNCHANGED <<m_api_keys, m_models, m_logs>>
      ]_vars

\* The seeding has just filled the catalog of a store that holds a key, an
\* override, a session and a default_model setting naming another model.
C26_Witness ==
    /\ resp.op = "db._seed_default_models"
    /\ "groq" \in DOMAIN ai_models
    /\ "default_model" \in DOMAIN settings
    /\ settings["default_model"] = "m1"
    /\ DOMAIN api_keys # {}
    /\ DOMAIN user_models # {}
    /\ DOMAIN sessions # {}

\* C27: a key test holds no store lock while its outbound call is in
\* flight: a test_key request holds Database.lock only at the statements of
\* update_api_test_result, after the call, and admin_test_key never holds
\* db_lock.
C27_NoLockDuringCall ==
    \A t \in DOMAIN threads :
        /\ threads[t].kind = "test_key"
              => /\ threads[t].pc = "call" => lock # t
                 /\ lock = t => threads[t].pc \in {"update", "insert", "commit", "release"}
        /\ threads[t].kind = "admin_test_key" => db_lock # t /\ lock # t

\* While the outbound call of a test of groq is in flight, the key has
\* been deleted by another request: get_api_key found it when the test
\* began, and no row has the name now.
C27_Witness ==
    \E t \in DOMAIN threads :
        /\ threads[t].kind = "test_key"
        /\ threads[t].pc = "call"
        /\ threads[t].name \notin KeyNames(api_keys)
        /\ resp.op = "delete_key"
        /\ resp.status = 200

\* A key row of the name is stored with its active flag set.
HasActiveKey(name) ==
    \E i \in DOMAIN api_keys : api_keys[i].name = name /\ api_keys[i].is_active = 1

\* C28: a key test that passes the gate for a name without an active key
\* row is answered 404 at once, with no test log appended and no key
\* touched, and no outbound call is ever started for such a name.
C28_NoActiveKeyNotFound ==
    [][ /\ \A t \in DOMAIN threads :
              (Calls(t, "test_key", "body") /\ ~HasActiveKey(threads[t].req.name))
                 => (Answers(t, 404) /\ UNCHANGED <<test_logs, api_keys>>)
        /\ \A t \in DOMAIN threads' :
              (/\ threads'[t].kind = "test_key"
               /\ threads'[t].pc = "call"
               /\ ~(t \in DOMAIN threads /\ threads[t].pc = "call"))
                 => (Calls(t, "test_key", "body") /\ HasActiveKey(threads'[t].name))
      ]_vars

\* A test of a key that is stored but switched off has just been answered
\* 404.
C28_Witness ==
    /\ resp.op = "test_key"
    /\ resp.status = 404
    /\ \E i \in DOMAIN api_keys :
          api_keys[i].name = resp.req.name /\ api_keys[i].is_active = 0

\* C29: a test_key request that passes the gate for a name with an active
\* key row is not turned away: it ends in a result with status 200 whose
\* success flag is true only when the outbound call returned HTTP 200, and
\* its one test log, appended before the answer, has status success
\* exactly when the flag is true.
C29_StructuredResult ==
    [][ \A t \in DOMAIN threads :
           /\ (Calls(t, "test_key", "body") /\ HasActiveKey(threads[t].req.name))
                 => (t \in DOMAIN threads' /\ threads'[t].pc = "call")
           /\ Calls(t, "test_key", "release")
                 => /\ Answers(t, 200)
                    /\ resp'.body.success => resp'.body.message = "Working!"
                    /\ \E i \in DOMAIN test_logs :
                          /\ test_logs[i].api_name = threads[t].name
                          /\ (test_logs[i].status = "success") <=> resp'.body.success
           /\ Calls(t, "test_key", "commit")
                 => /\ Len(test_logs') = Len(test_logs) + 1
                    /\ test_logs'[Len(test_logs')].api_name = threads[t].name
      ]_vars

\* C30: the activity log of main.py is a ring buffer: it never holds more
\* than LOGS_CAP rows, and the rows it holds are the LOGS_CAP rows appended
\* last (ids are given in order of appending), also when rows share their
\* created_at.
C30_RingBuffer ==
    /\ Len(m_logs) <= LOGS_CAP
    /\ {m_logs[i].id : i \in DOMAIN m_logs}
          = {k \in 1..m_logs_seq : k > m_logs_seq - LOGS_CAP}

====
